---- MODULE Spec2Model ----
(***************************************************************************)
(* Verification model of the gridworld simulation engine                   *)
(* (JackforJacks/gridworld): the Calendar Runner and its host commands,    *)
(* the event log, the world's tick pipeline and the export/import          *)
(* machinery.                                                              *)
(*                                                                         *)
(* The module holds several specifications over one set of variables:      *)
(*   SpecRunner  - CalendarRunner used directly (as the crate's own test   *)
(*                 does): start / stop / drop, manual ticks and queries.   *)
(*   FairRunner  - SpecRunner with the scheduling fairness of OS threads.  *)
(*   SpecHost    - the napi and tauri start_calendar / stop_calendar       *)
(*                 commands around the process-wide runner slot.           *)
(*   SpecLog     - EventLog::new / push on its own.                        *)
(*   Spec        - SimulationWorld: seed, tick, id allocation, export,     *)
(*                 import, save to and load from a file.                   *)
(*   SpecSave    - save_to_file step by step, with I/O failures, crashes.  *)
(*   SpecTick    - one tick pass by pass.                                  *)
(*   SpecCalendar  - the calendar over long runs of ticks.                 *)
(*   SpecPregnancy - Pregnant::new over the dates.                         *)
(*   SpecStats   - calculate_vital_statistics over worlds and ranges.      *)
(*   SpecTimed   - the runner's loop against the clock.                    *)
(*   SpecTauri   - the tauri commands get_calendar_state and save_world    *)
(*                 next to start_calendar / stop_calendar.                 *)
(*   SpecMatch   - ticks pass by pass at the age limits of marriage.       *)
(*   SpecImported - ticks pass by pass over an imported world.             *)
(*   SpecSnapshot - import_world over snapshots with missing and repeated  *)
(*                 ids.                                                    *)
(*   SpecShared  - the runner's loop and the hosts' tick requests on the   *)
(*                 one world behind the mutex.                             *)
(*   SpecNamed   - delivery in a world whose persons carry names.          *)
(* A specification leaves the variables of the other parts unchanged.      *)
(***************************************************************************)
EXTENDS Integers, Sequences, FiniteSets, TLC

\* ------------------------------------------------------------------------
\* Bounds of the model
\* ------------------------------------------------------------------------
MaxThreads == 2
MaxRunners == 2
MaxLocal == 1
MaxOps == 3

Hosts == {1, 2}
Threads == 1..MaxThreads
Runners == 1..MaxRunners

\* Option::None for a JoinHandle / a CalendarRunner
NoThread == 0
NoRunner == 0

\* (interval_ms, callback) pairs a caller passes to start():
\* "count" only bumps a counter (the crate's test), "emit" locks the world
\* again to read the calendar (both host bindings).
StartArgs == {<<1000, "count">>, <<125, "emit">>}

\* The thread that owns the CalendarRunner objects when the runner is used
\* directly (start, stop and drop need &mut self).
Owner == 1

\* Mutant: a tick that clears the links of the widowed before the deaths.
PassesDissolveFirst ==
    <<"advance", "dissolution", "death", "matchmaking", "conception",
      "delivery", "log">>

\* The steps of SimulationWorld::tick, in order.
Passes == <<"advance", "death", "matchmaking", "dissolution", "conception",
            "delivery", "log">>
NumPasses == Len(Passes)

HostActor(h) == <<"host", h>>
ThreadActor(t) == <<"thread", t>>
Free == <<"free", 0>>
Actors == {HostActor(h) : h \in Hosts} \cup {ThreadActor(t) : t \in Threads}

VARIABLES
    \* --- Calendar Runner and hosts
    binding,        \* "lib" | "napi" | "tauri": who drives the runner
    is_running,     \* CalendarRunner.is_running, per runner object
    thread_handle,  \* CalendarRunner.thread_handle, per runner object
    robj,           \* life of a runner object: unborn / local / slot / dropped
    next_runner,    \* next CalendarRunner::new() gets this identity
    next_thread,    \* next thread::spawn gets this identity
    tpc,            \* position of each background thread in its loop
    targs,          \* what a thread's closure captured at spawn
    slot,           \* CALENDAR_RUNNER / AppState.calendar_runner content
    slot_lock,      \* owner of the mutex around the slot
    world_lock,     \* owner of the Mutex<SimulationWorld>
    stage,          \* passes of the tick in progress already run (0: none)
    hpc,            \* position of each host thread in its command
    hrun,           \* the runner a host's command works on
    hjoin,          \* the thread a host is joining
    ops,            \* calls issued so far (bounded by MaxOps)
    last_op,        \* the most recent CalendarRunner call
    last_access,    \* who touched the world last
    stop_returned,  \* per thread: the stop() that joined it has returned
    late_ticks,     \* per thread: ticks finished while its flag was clear
    \* --- EventLog on its own
    lg,             \* an EventLog: events (oldest first) and max_size
    lg_before,      \* <<events before the push>> right after a push, else <<>>
    lg_pushes,      \* pushes made so far
    \* --- SimulationWorld, the host's payloads and the save file
    persons,        \* hecs World: entity handle -> components of the person
    calendar,       \* SimulationWorld.calendar
    next_person_id, \* SimulationWorld.next_person_id
    event_log,      \* SimulationWorld.event_log
    next_entity,    \* the handle the next spawn gets
    json,           \* the export text the host holds (at most one)
    file,           \* the save file at the path (at most one)
    calls,          \* host calls on the world so far
    issued,         \* highest person id handed out so far (0: none)
    last,           \* the most recent world operation and its result
    \* --- operations followed step by step
    disk,           \* the file system: path -> <<content>> or <<>>
    sv,             \* the save_to_file in progress: position and bytes
    tk,             \* the tick in progress: steps done, draws, counts
    \* --- functions on their own, and the runner against the clock
    cl,             \* a calendar being advanced: start, ticks made, panic
    pg,             \* a pregnancy: the date it was recorded at, its due date
    tm              \* the timed run: clock, loop and caller, tick count

runnerVars == <<binding, is_running, thread_handle, robj, next_runner,
                next_thread, tpc, targs, slot, slot_lock, world_lock, stage,
                hpc, hrun, hjoin, ops, last_op, last_access, stop_returned,
                late_ticks>>

logVars == <<lg, lg_before, lg_pushes>>

worldVars == <<persons, calendar, next_person_id, event_log, next_entity,
               json, file, calls, issued, last>>

pureVars == <<cl, pg, tm>>

stepVars == <<disk, sv, tk, pureVars>>

vars == <<runnerVars, logVars, worldVars, stepVars>>

\* ------------------------------------------------------------------------
\* Calendar and EventLog
\* ------------------------------------------------------------------------
\* year: u16
YearModulus == 65536

DAYS_PER_MONTH == 8
MONTHS_PER_YEAR == 12

\* SimulationWorld::new: Calendar::new(4000, 1, 1) and next_person_id 1.
StartYear == 4000
FirstPersonId == 1

\* EventLog::default(): 10,000 events.
DefaultLogCapacity == 10000

Date(y, m, d) == [year |-> y, month |-> m, day |-> d]

\* Event::new(event_type, calendar): person_id is None.
Event(type, cal) ==
    [event_type |-> type, year |-> cal.year, month |-> cal.month,
     day |-> cal.day, person_id |-> <<>>]

\* EventLog::new(max_size): an empty deque.
EventLogNew(max_size) == [events |-> <<>>, max_size |-> max_size]

\* VecDeque::pop_front: drops the oldest element, nothing on an empty deque.
PopFront(q) == IF q = <<>> THEN <<>> ELSE Tail(q)

\* EventLog::push: if len >= max_size then pop_front; push_back(event).
EventLogPush(log, e) ==
    [log EXCEPT !.events =
        Append(IF Len(log.events) >= log.max_size THEN PopFront(log.events)
               ELSE log.events, e)]

\* EventLog::clear.
EventLogClear(log) == [log EXCEPT !.events = <<>>]

Reverse(q) == [i \in 1..Len(q) |-> q[Len(q) + 1 - i]]

\* EventLog::get_all: iter_all() is the deque reversed, newest first.
EventLogGetAll(log) == Reverse(log.events)

\* iter().take(n)
Take(seq, n) == SubSeq(seq, 1, IF n < Len(seq) THEN n ELSE Len(seq))

\* EventLog::get_recent(count): the newest count events, newest first.
EventLogGetRecent(log, count) == Take(Reverse(log.events), count)

\* An EventLog::new(cap) nobody has pushed to.
InitLog(cap) ==
    /\ lg = EventLogNew(cap)
    /\ lg_before = <<>>
    /\ lg_pushes = 0

NoJson == <<>>
NoFile == <<>>
NoCall == [op |-> "none", ok |-> TRUE, ids |-> {}, at |-> 0]

\* SimulationWorld::new(): empty hecs world, calendar 4000-01-01, next id 1,
\* default event log; the host holds no export text and no save file exists.
InitWorld ==
    /\ persons = << >>
    /\ calendar = Date(StartYear, 1, 1)
    /\ next_person_id = FirstPersonId
    /\ event_log = EventLogNew(DefaultLogCapacity)
    /\ next_entity = 1
    /\ json = NoJson
    /\ file = NoFile
    /\ calls = 0
    /\ issued = 0
    /\ last = NoCall

\* The target path of the saves and the paths of the file system.
SavePath == "world.sav"

\* Mutant: a save that writes straight to the target path.
TmpPathInPlace(path) == path

\* let tmp_path = format!("{}.tmp", path)
TmpPath(path) == path \o ".tmp"
Paths == {SavePath, TmpPath(SavePath)}
NoSave == [pc |-> "idle", path |-> "", encoded |-> <<>>]

\* No tick under way.  During a tick: how many steps have run and which,
\* the world the tick started from, the draws made and the counts returned
\* by the passes so far.
NoTick ==
    [pc |-> 0, done |-> <<>>, start |-> <<>>, D |-> {}, M |-> {}, C |-> {},
     sx |-> <<>>, deaths |-> 0, marriages |-> 0, dissolutions |-> 0,
     pregnancies |-> 0, births |-> 0]

\* No calendar run, no pregnancy and no timed run is being followed.
NoRun == [start |-> <<>>, ticks |-> 0, panicked |-> FALSE]
NoPregnancy == [at |-> <<>>, preg |-> <<>>, panicked |-> FALSE]
\* No timed run: the clock at 0, no loop thread, nothing counted.
NoClock ==
    [on |-> FALSE, now |-> 0, running |-> FALSE,
     loop |-> "none", loop_wake |-> 0, main |-> "none", main_wake |-> 0,
     ticked_at |-> <<>>, tick_count |-> 0, sleeps |-> 0,
     lag |-> 0, late |-> 0]

\* Nothing on disk, no operation under way.
InitSteps ==
    /\ disk = [p \in Paths |-> <<>>]
    /\ sv = NoSave
    /\ tk = NoTick
    /\ cl = NoRun
    /\ pg = NoPregnancy
    /\ tm = NoClock

NoArgs == [runner |-> NoRunner, interval |-> 0, callback |-> "none"]
NoOp == [at |-> 0, name |-> "none", runner |-> NoRunner, interval |-> 0,
         callback |-> "none", was_running |-> FALSE]

\* CalendarRunner::new for every runner object, no thread spawned, locks free.
InitRunner(b) ==
    /\ binding = b
    /\ is_running = [r \in Runners |-> FALSE]
    /\ thread_handle = [r \in Runners |-> NoThread]
    /\ robj = [r \in Runners |-> "unborn"]
    /\ next_runner = 1
    /\ next_thread = 1
    /\ tpc = [t \in Threads |-> "unborn"]
    /\ targs = [t \in Threads |-> NoArgs]
    /\ slot = NoRunner
    /\ slot_lock = Free
    /\ world_lock = Free
    /\ stage = 0
    /\ hpc = [h \in Hosts |-> "idle"]
    /\ hrun = [h \in Hosts |-> NoRunner]
    /\ hjoin = [h \in Hosts |-> NoThread]
    /\ ops = 0
    /\ last_op = NoOp
    /\ last_access = Free
    /\ stop_returned = [t \in Threads |-> FALSE]
    /\ late_ticks = [t \in Threads |-> 0]

\* ------------------------------------------------------------------------
\* The world mutex
\* ------------------------------------------------------------------------

\* Mutant: a lock that never makes its caller wait.
CanLockWorldUnguarded(a) == TRUE

\* world.lock(): the caller proceeds only when nobody holds the mutex.
CanLockWorld(a) == world_lock = Free

\* ------------------------------------------------------------------------
\* CalendarRunner::start
\* ------------------------------------------------------------------------

\* Mutant: start() without its already-running test.
AlreadyRunningUnchecked(r) == FALSE

\* "Don't start if already running": the flag test at the top of start().
AlreadyRunning(r) == is_running[r]

\* start(): no-op when the flag is set; else set the flag, spawn the loop with
\* the captured interval and callback, keep its JoinHandle.
StartBody(r, i, c) ==
    /\ last_op' = [at |-> ops + 1, name |-> "start", runner |-> r, interval |-> i,
                   callback |-> c, was_running |-> is_running[r]]
    /\ IF AlreadyRunning(r)
       THEN UNCHANGED <<is_running, thread_handle, tpc, targs, next_thread,
                   logVars, worldVars, stepVars>>
       ELSE /\ next_thread <= MaxThreads
            /\ is_running' = [is_running EXCEPT ![r] = TRUE]
            /\ tpc' = [tpc EXCEPT ![next_thread] = "check"]
            /\ targs' = [targs EXCEPT ![next_thread] =
                            [runner |-> r, interval |-> i, callback |-> c]]
            /\ thread_handle' = [thread_handle EXCEPT ![r] = next_thread]
            /\ next_thread' = next_thread + 1

\* ------------------------------------------------------------------------
\* The background loop (the closure given to thread::spawn)
\* ------------------------------------------------------------------------

\* Mutant: a loop that never looks at the flag.
LoopConditionIgnoresFlag(t) == TRUE

\* while running.load(): the loop condition, read once per iteration.
LoopCondition(t) == is_running[targs[t].runner]

ThreadCheck(t) ==
    /\ tpc[t] = "check"
    /\ tpc' = [tpc EXCEPT ![t] = IF LoopCondition(t) THEN "lock" ELSE "done"]
    /\ UNCHANGED <<binding, is_running, thread_handle, robj, next_runner,
                   next_thread, targs, slot, slot_lock, world_lock, stage,
                   hpc, hrun, hjoin, ops, last_op, last_access,
                   stop_returned, late_ticks,
                   logVars, worldVars, stepVars>>

\* let mut w = world.lock().unwrap();
ThreadLock(t) ==
    /\ tpc[t] = "lock"
    /\ CanLockWorld(ThreadActor(t))
    /\ world_lock' = ThreadActor(t)
    /\ tpc' = [tpc EXCEPT ![t] = "tick"]
    /\ UNCHANGED <<binding, is_running, thread_handle, robj, next_runner,
                   next_thread, targs, slot, slot_lock, stage, hpc, hrun,
                   hjoin, ops, last_op, last_access, stop_returned,
                   late_ticks,
                   logVars, worldVars, stepVars>>

\* w.tick(): one pass of the pipeline at a time.
ThreadPass(t) ==
    /\ tpc[t] = "tick"
    /\ stage < NumPasses
    /\ stage' = stage + 1
    /\ last_access' = ThreadActor(t)
    /\ UNCHANGED <<binding, is_running, thread_handle, robj, next_runner,
                   next_thread, tpc, targs, slot, slot_lock, world_lock,
                   hpc, hrun, hjoin, ops, last_op, stop_returned, late_ticks,
                   logVars, worldVars, stepVars>>

\* Mutant: a loop that keeps the guard of its tick while it calls back.
GuardKeptAfterTick(t) == ThreadActor(t)

\* let tick_result = { let mut w = world.lock().unwrap(); w.tick() };
\* the guard lives in the block only: the mutex is free once it is left.
GuardAfterTick(t) == Free

\* end of the block: tick() has returned, the guard is dropped.
ThreadUnlock(t) ==
    /\ tpc[t] = "tick"
    /\ stage = NumPasses
    /\ stage' = 0
    /\ world_lock' = GuardAfterTick(t)
    /\ tpc' = [tpc EXCEPT ![t] = "callback"]
    /\ late_ticks' = [late_ticks EXCEPT ![t] =
                        IF is_running[targs[t].runner] THEN @ ELSE @ + 1]
    /\ UNCHANGED <<binding, is_running, thread_handle, robj, next_runner,
                   next_thread, targs, slot, slot_lock, hpc, hrun, hjoin,
                   ops, last_op, last_access, stop_returned,
                   logVars, worldVars, stepVars>>

\* callback(tick_result): "count" returns at once; "emit" first locks the
\* world to read the calendar.
ThreadCallback(t) ==
    /\ tpc[t] = "callback"
    /\ tpc' = [tpc EXCEPT ![t] =
                  IF targs[t].callback = "emit" THEN "cb_lock" ELSE "sleep"]
    /\ UNCHANGED <<binding, is_running, thread_handle, robj, next_runner,
                   next_thread, targs, slot, slot_lock, world_lock, stage,
                   hpc, hrun, hjoin, ops, last_op, last_access,
                   stop_returned, late_ticks,
                   logVars, worldVars, stepVars>>

ThreadCbLock(t) ==
    /\ tpc[t] = "cb_lock"
    /\ CanLockWorld(ThreadActor(t))
    /\ world_lock' = ThreadActor(t)
    /\ tpc' = [tpc EXCEPT ![t] = "cb_read"]
    /\ UNCHANGED <<binding, is_running, thread_handle, robj, next_runner,
                   next_thread, targs, slot, slot_lock, stage, hpc, hrun,
                   hjoin, ops, last_op, last_access, stop_returned,
                   late_ticks,
                   logVars, worldVars, stepVars>>

ThreadCbRead(t) ==
    /\ tpc[t] = "cb_read"
    /\ last_access' = ThreadActor(t)
    /\ world_lock' = Free
    /\ tpc' = [tpc EXCEPT ![t] = "sleep"]
    /\ UNCHANGED <<binding, is_running, thread_handle, robj, next_runner,
                   next_thread, targs, slot, slot_lock, stage, hpc, hrun,
                   hjoin, ops, last_op, stop_returned, late_ticks,
                   logVars, worldVars, stepVars>>

\* thread::sleep(interval) is over.
ThreadWake(t) ==
    /\ tpc[t] = "sleep"
    /\ tpc' = [tpc EXCEPT ![t] = "check"]
    /\ UNCHANGED <<binding, is_running, thread_handle, robj, next_runner,
                   next_thread, targs, slot, slot_lock, world_lock, stage,
                   hpc, hrun, hjoin, ops, last_op, last_access,
                   stop_returned, late_ticks,
                   logVars, worldVars, stepVars>>

ThreadStep(t) ==
    \/ ThreadCheck(t)
    \/ ThreadLock(t)
    \/ ThreadPass(t)
    \/ ThreadUnlock(t)
    \/ ThreadCallback(t)
    \/ ThreadCbLock(t)
    \/ ThreadCbRead(t)
    \/ ThreadWake(t)

\* ------------------------------------------------------------------------
\* CalendarRunner::stop and Drop
\* ------------------------------------------------------------------------

\* Mutant: stop() that does not wait for the thread.
JoinReadyNoWait(t) == TRUE

\* handle.join() returns once the thread has run to its end.
JoinReady(t) == tpc[t] = "done"

\* A host is inside a call on runner r (a &mut borrow of it).
Borrowed(r) == \E h \in Hosts : hpc[h] # "idle" /\ hrun[h] = r

\* Mutant: a stop() that returns at once when the runner is running.
NotRunningInverted(r) == is_running[r]

\* stop: if !self.is_running.load(..) { return; }
NotRunning(r) == ~is_running[r]

\* stop() up to the join: return at once when the flag is clear; else clear
\* the flag and take the handle.  The host goes on at `joining` when there is
\* a thread to join, else at `returned`.
StopFirst(h, r, joining, returned) ==
    /\ last_op' = [at |-> ops + 1, name |-> "stop", runner |-> r, interval |-> 0,
                   callback |-> "none", was_running |-> is_running[r]]
    /\ IF NotRunning(r)
       THEN /\ hpc' = [hpc EXCEPT ![h] = returned]
            /\ UNCHANGED <<is_running, thread_handle, hjoin,
                   logVars, worldVars, stepVars>>
       ELSE /\ is_running' = [is_running EXCEPT ![r] = FALSE]
            /\ thread_handle' = [thread_handle EXCEPT ![r] = NoThread]
            /\ IF thread_handle[r] # NoThread
               THEN /\ hpc' = [hpc EXCEPT ![h] = joining]
                    /\ hjoin' = [hjoin EXCEPT ![h] = thread_handle[r]]
               ELSE /\ hpc' = [hpc EXCEPT ![h] = returned]
                    /\ UNCHANGED hjoin

\* CalendarRunner::new()
LibNew(h) ==
    /\ binding = "lib"
    /\ h = Owner
    /\ hpc[h] = "idle"
    /\ next_runner <= MaxLocal
    /\ robj' = [robj EXCEPT ![next_runner] = "local"]
    /\ next_runner' = next_runner + 1
    /\ UNCHANGED <<binding, is_running, thread_handle, next_thread, tpc,
                   targs, slot, slot_lock, world_lock, stage, hpc, hrun,
                   hjoin, ops, last_op, last_access, stop_returned,
                   late_ticks,
                   logVars, worldVars, stepVars>>

\* runner.start(world, interval, callback) on a runner the caller owns.
LibStart(h, r, i, c) ==
    /\ binding = "lib"
    /\ h = Owner
    /\ hpc[h] = "idle"
    /\ robj[r] = "local"
    /\ ~Borrowed(r)
    /\ ops < MaxOps
    /\ ops' = ops + 1
    /\ StartBody(r, i, c)
    /\ UNCHANGED <<binding, robj, next_runner, slot, slot_lock, world_lock,
                   stage, hpc, hrun, hjoin, last_access, stop_returned,
                   late_ticks,
                   logVars, worldVars, stepVars>>

\* runner.stop(), up to the join.
LibStop(h, r) ==
    /\ binding = "lib"
    /\ h = Owner
    /\ hpc[h] = "idle"
    /\ robj[r] = "local"
    /\ ~Borrowed(r)
    /\ ops < MaxOps
    /\ ops' = ops + 1
    /\ hrun' = [hrun EXCEPT ![h] = r]
    /\ StopFirst(h, r, "join", "idle")
    /\ UNCHANGED <<binding, robj, next_runner, next_thread, tpc, targs, slot,
                   slot_lock, world_lock, stage, last_access, stop_returned,
                   late_ticks,
                   logVars, worldVars, stepVars>>

\* the join inside stop() is over: stop() returns.
LibJoin(h) ==
    /\ hpc[h] = "join"
    /\ JoinReady(hjoin[h])
    /\ stop_returned' = [stop_returned EXCEPT ![hjoin[h]] = TRUE]
    /\ hpc' = [hpc EXCEPT ![h] = "idle"]
    /\ hjoin' = [hjoin EXCEPT ![h] = NoThread]
    /\ UNCHANGED <<binding, is_running, thread_handle, robj, next_runner,
                   next_thread, tpc, targs, slot, slot_lock, world_lock,
                   stage, hrun, ops, last_op, last_access, late_ticks,
                   logVars, worldVars, stepVars>>

\* The runner goes out of scope: Drop::drop calls stop().
LibDrop(h, r) ==
    /\ binding = "lib"
    /\ h = Owner
    /\ hpc[h] = "idle"
    /\ robj[r] = "local"
    /\ ~Borrowed(r)
    /\ ops < MaxOps
    /\ ops' = ops + 1
    /\ hrun' = [hrun EXCEPT ![h] = r]
    /\ StopFirst(h, r, "drop_join", "idle")
    /\ robj' = [robj EXCEPT ![r] = IF is_running[r] /\ thread_handle[r] # NoThread
                                    THEN "dropping" ELSE "dropped"]
    /\ UNCHANGED <<binding, next_runner, next_thread, tpc, targs, slot,
                   slot_lock, world_lock, stage, last_access, stop_returned,
                   late_ticks,
                   logVars, worldVars, stepVars>>

LibDropJoin(h) ==
    /\ hpc[h] = "drop_join"
    /\ JoinReady(hjoin[h])
    /\ stop_returned' = [stop_returned EXCEPT ![hjoin[h]] = TRUE]
    /\ robj' = [robj EXCEPT ![hrun[h]] = "dropped"]
    /\ hpc' = [hpc EXCEPT ![h] = "idle"]
    /\ hjoin' = [hjoin EXCEPT ![h] = NoThread]
    /\ UNCHANGED <<binding, is_running, thread_handle, next_runner,
                   next_thread, tpc, targs, slot, slot_lock, world_lock,
                   stage, hrun, ops, last_op, last_access, late_ticks,
                   logVars, worldVars, stepVars>>

\* ------------------------------------------------------------------------
\* Manual ticks and queries by a host thread
\* ------------------------------------------------------------------------

\* The Node main thread is the only caller under napi; tauri commands run on
\* any thread.
MayCall(h) == binding = "napi" => h = 1

\* tick(world): world.lock().unwrap() ...
HostTickLock(h) ==
    /\ hpc[h] = "idle"
    /\ MayCall(h)
    /\ ops < MaxOps
    /\ CanLockWorld(HostActor(h))
    /\ ops' = ops + 1
    /\ world_lock' = HostActor(h)
    /\ hpc' = [hpc EXCEPT ![h] = "mt_tick"]
    /\ UNCHANGED <<binding, is_running, thread_handle, robj, next_runner,
                   next_thread, tpc, targs, slot, slot_lock, stage, hrun,
                   hjoin, last_op, last_access, stop_returned, late_ticks,
                   logVars, worldVars, stepVars>>

\* ... .tick(): one pass at a time.
HostTickPass(h) ==
    /\ hpc[h] = "mt_tick"
    /\ stage < NumPasses
    /\ stage' = stage + 1
    /\ last_access' = HostActor(h)
    /\ UNCHANGED <<binding, is_running, thread_handle, robj, next_runner,
                   next_thread, tpc, targs, slot, slot_lock, world_lock, hpc,
                   hrun, hjoin, ops, last_op, stop_returned, late_ticks,
                   logVars, worldVars, stepVars>>

HostTickUnlock(h) ==
    /\ hpc[h] = "mt_tick"
    /\ stage = NumPasses
    /\ stage' = 0
    /\ world_lock' = Free
    /\ hpc' = [hpc EXCEPT ![h] = "idle"]
    /\ UNCHANGED <<binding, is_running, thread_handle, robj, next_runner,
                   next_thread, tpc, targs, slot, slot_lock, hrun, hjoin,
                   ops, last_op, last_access, stop_returned, late_ticks,
                   logVars, worldVars, stepVars>>

\* A read-only command (get_entity_count, get_demographics, export_world,
\* ...): lock, read, unlock.
HostQueryLock(h) ==
    /\ hpc[h] = "idle"
    /\ MayCall(h)
    /\ ops < MaxOps
    /\ CanLockWorld(HostActor(h))
    /\ ops' = ops + 1
    /\ world_lock' = HostActor(h)
    /\ hpc' = [hpc EXCEPT ![h] = "q_read"]
    /\ UNCHANGED <<binding, is_running, thread_handle, robj, next_runner,
                   next_thread, tpc, targs, slot, slot_lock, stage, hrun,
                   hjoin, last_op, last_access, stop_returned, late_ticks,
                   logVars, worldVars, stepVars>>

HostQueryRead(h) ==
    /\ hpc[h] = "q_read"
    /\ last_access' = HostActor(h)
    /\ world_lock' = Free
    /\ hpc' = [hpc EXCEPT ![h] = "idle"]
    /\ UNCHANGED <<binding, is_running, thread_handle, robj, next_runner,
                   next_thread, tpc, targs, slot, slot_lock, stage, hrun,
                   hjoin, ops, last_op, stop_returned, late_ticks,
                   logVars, worldVars, stepVars>>

\* ------------------------------------------------------------------------
\* SpecRunner: the runner driven through its own API
\* ------------------------------------------------------------------------
NextRunner ==
    \/ \E t \in Threads : ThreadStep(t)
    \/ \E h \in Hosts : LibNew(h)
    \/ \E h \in Hosts, r \in Runners, a \in StartArgs :
          LibStart(h, r, a[1], a[2])
    \/ \E h \in Hosts, r \in Runners : LibStop(h, r)
    \/ \E h \in Hosts : LibJoin(h)
    \/ \E h \in Hosts, r \in Runners : LibDrop(h, r)
    \/ \E h \in Hosts : LibDropJoin(h)
    \/ \E h \in Hosts : HostTickLock(h)
    \/ \E h \in Hosts : HostTickPass(h)
    \/ \E h \in Hosts : HostTickUnlock(h)
    \/ \E h \in Hosts : HostQueryLock(h)
    \/ \E h \in Hosts : HostQueryRead(h)

InitLib ==
    /\ InitRunner("lib") /\ InitLog(DefaultLogCapacity) /\ InitWorld
    /\ InitSteps

SpecRunner == InitLib /\ [][NextRunner]_vars

\* The scheduling of OS threads: a thread that can take a step eventually
\* does, and a host inside a call goes on with it; issuing a new call is not
\* forced.  A thread blocked in world.lock() is woken when the mutex is
\* released and every other loop then sleeps for its interval with the mutex
\* free, so a waiter is not overtaken forever: strong fairness for the two
\* lock acquisitions of the loop.
HostGoesOn(h) ==
    \/ LibJoin(h)
    \/ LibDropJoin(h)
    \/ HostTickPass(h)
    \/ HostTickUnlock(h)
    \/ HostQueryRead(h)

FairRunner ==
    /\ SpecRunner
    /\ \A t \in Threads : WF_vars(ThreadStep(t))
    /\ \A t \in Threads : SF_vars(ThreadLock(t) \/ ThreadCbLock(t))
    /\ \A h \in Hosts : WF_vars(HostGoesOn(h))

\* ------------------------------------------------------------------------
\* Host commands around the process-wide runner slot
\* (napi_bindings.rs CALENDAR_RUNNER, src-tauri AppState.calendar_runner)
\* ------------------------------------------------------------------------

\* Where a command goes on once it is done with the slot: the tauri commands
\* still lock the world to report the date, holding the slot's guard; the
\* napi commands return.
AfterSlot == IF binding = "tauri" THEN "ret_world" ELSE "ret_unlock"

\* start_calendar, first half: CalendarRunner::new() and runner.start(..)
\* with the emitting callback.  The runner is still a local of the command.
HostStartCalendar(h, i) ==
    /\ binding \in {"napi", "tauri"}
    /\ hpc[h] = "idle"
    /\ MayCall(h)
    /\ ops < MaxOps
    /\ next_runner <= MaxRunners
    /\ ops' = ops + 1
    /\ robj' = [robj EXCEPT ![next_runner] = "local"]
    /\ next_runner' = next_runner + 1
    /\ StartBody(next_runner, i, "emit")
    /\ hrun' = [hrun EXCEPT ![h] = next_runner]
    /\ hpc' = [hpc EXCEPT ![h] = "sc_slot"]
    /\ UNCHANGED <<binding, slot, slot_lock, world_lock, stage, hjoin,
                   last_access, stop_returned, late_ticks,
                   logVars, worldVars, stepVars>>

\* start_calendar, second half: lock the slot and store the new runner in
\* it.  The runner that was there is dropped, and Drop calls its stop().
HostStartStore(h) ==
    /\ hpc[h] = "sc_slot"
    /\ slot_lock = Free
    /\ slot_lock' = HostActor(h)
    /\ slot' = hrun[h]
    /\ IF slot = NoRunner
       THEN /\ hpc' = [hpc EXCEPT ![h] = AfterSlot]
            /\ robj' = [robj EXCEPT ![hrun[h]] = "slot"]
            /\ UNCHANGED <<is_running, thread_handle, hjoin, hrun, last_op,
                   logVars, worldVars, stepVars>>
       ELSE /\ StopFirst(h, slot, "slot_join", AfterSlot)
            /\ hrun' = [hrun EXCEPT ![h] = slot]
            /\ robj' = [robj EXCEPT
                          ![hrun[h]] = "slot",
                          ![slot] = IF is_running[slot]
                                       /\ thread_handle[slot] # NoThread
                                    THEN "dropping" ELSE "dropped"]
    /\ UNCHANGED <<binding, next_runner, next_thread, tpc, targs, world_lock,
                   stage, ops, last_access, stop_returned, late_ticks,
                   logVars, worldVars, stepVars>>

\* stop_calendar: lock the slot, take the runner out, stop it; the runner
\* is dropped when the command returns.
HostStopCalendar(h) ==
    /\ binding \in {"napi", "tauri"}
    /\ hpc[h] = "idle"
    /\ MayCall(h)
    /\ ops < MaxOps
    /\ slot_lock = Free
    /\ ops' = ops + 1
    /\ slot_lock' = HostActor(h)
    /\ slot' = NoRunner
    /\ IF slot = NoRunner
       THEN /\ hpc' = [hpc EXCEPT ![h] = AfterSlot]
            /\ UNCHANGED <<is_running, thread_handle, hjoin, hrun, last_op,
                           robj,
                   logVars, worldVars, stepVars>>
       ELSE /\ StopFirst(h, slot, "slot_join", AfterSlot)
            /\ hrun' = [hrun EXCEPT ![h] = slot]
            /\ robj' = [robj EXCEPT
                          ![slot] = IF is_running[slot]
                                       /\ thread_handle[slot] # NoThread
                                    THEN "dropping" ELSE "dropped"]
    /\ UNCHANGED <<binding, next_runner, next_thread, tpc, targs, world_lock,
                   stage, last_access, stop_returned, late_ticks,
                   logVars, worldVars, stepVars>>

\* The join inside the stop() of the runner taken out of the slot.
HostSlotJoin(h) ==
    /\ hpc[h] = "slot_join"
    /\ JoinReady(hjoin[h])
    /\ stop_returned' = [stop_returned EXCEPT ![hjoin[h]] = TRUE]
    /\ robj' = [robj EXCEPT ![hrun[h]] = "dropped"]
    /\ hpc' = [hpc EXCEPT ![h] = AfterSlot]
    /\ hjoin' = [hjoin EXCEPT ![h] = NoThread]
    /\ UNCHANGED <<binding, is_running, thread_handle, next_runner,
                   next_thread, tpc, targs, slot, slot_lock, world_lock,
                   stage, hrun, ops, last_op, last_access, late_ticks,
                   logVars, worldVars, stepVars>>

\* tauri: let w = state.world.lock().unwrap(), the slot's guard still held.
HostReturnLock(h) ==
    /\ hpc[h] = "ret_world"
    /\ CanLockWorld(HostActor(h))
    /\ world_lock' = HostActor(h)
    /\ hpc' = [hpc EXCEPT ![h] = "ret_read"]
    /\ UNCHANGED <<binding, is_running, thread_handle, robj, next_runner,
                   next_thread, tpc, targs, slot, slot_lock, stage, hrun,
                   hjoin, ops, last_op, last_access, stop_returned,
                   late_ticks,
                   logVars, worldVars, stepVars>>

\* tauri: build the CalendarState and return; both guards are dropped.
HostReturnRead(h) ==
    /\ hpc[h] = "ret_read"
    /\ last_access' = HostActor(h)
    /\ world_lock' = Free
    /\ slot_lock' = Free
    /\ hpc' = [hpc EXCEPT ![h] = "idle"]
    /\ UNCHANGED <<binding, is_running, thread_handle, robj, next_runner,
                   next_thread, tpc, targs, slot, stage, hrun, hjoin, ops,
                   last_op, stop_returned, late_ticks,
                   logVars, worldVars, stepVars>>

\* napi: the command returns, the slot's guard is dropped.
HostReturnUnlock(h) ==
    /\ hpc[h] = "ret_unlock"
    /\ slot_lock' = Free
    /\ hpc' = [hpc EXCEPT ![h] = "idle"]
    /\ UNCHANGED <<binding, is_running, thread_handle, robj, next_runner,
                   next_thread, tpc, targs, slot, world_lock, stage, hrun,
                   hjoin, ops, last_op, last_access, stop_returned,
                   late_ticks,
                   logVars, worldVars, stepVars>>

NextHost ==
    \/ \E t \in Threads : ThreadStep(t)
    \/ \E h \in Hosts, a \in StartArgs : HostStartCalendar(h, a[1])
    \/ \E h \in Hosts : HostStartStore(h)
    \/ \E h \in Hosts : HostStopCalendar(h)
    \/ \E h \in Hosts : HostSlotJoin(h)
    \/ \E h \in Hosts : HostReturnLock(h)
    \/ \E h \in Hosts : HostReturnRead(h)
    \/ \E h \in Hosts : HostReturnUnlock(h)
    \/ \E h \in Hosts : HostTickLock(h)
    \/ \E h \in Hosts : HostTickPass(h)
    \/ \E h \in Hosts : HostTickUnlock(h)
    \/ \E h \in Hosts : HostQueryLock(h)
    \/ \E h \in Hosts : HostQueryRead(h)

InitHost ==
    /\ \E b \in {"napi", "tauri"} : InitRunner(b)
    /\ InitLog(DefaultLogCapacity)
    /\ InitWorld
    /\ InitSteps

SpecHost == InitHost /\ [][NextHost]_vars

\* ------------------------------------------------------------------------
\* Claims about the Calendar Runner
\* ------------------------------------------------------------------------
Alive(t) == tpc[t] \notin {"unborn", "done"}
ThreadsOf(r) == {t \in Threads : targs[t].runner = r}

\* C1: once stop() (called explicitly or by Drop) has returned, the loop it
\* joined has terminated: the thread is at its end, and from then on it takes
\* no step at all (no tick pass, no callback, no access to the world).
C1_StopTerminatesLoop ==
    /\ [](\A t \in Threads : stop_returned[t] => tpc[t] = "done")
    /\ [][\A t \in Threads : stop_returned[t] =>
             /\ tpc'[t] = tpc[t]
             /\ (last_access' # last_access => last_access' # ThreadActor(t))
         ]_vars

\* C1 witness: a stop() has returned although the loop still finished a tick
\* after the flag was cleared (stop() was called before or during that tick).
C1_Witness ==
    \E t \in Threads : stop_returned[t] /\ late_ticks[t] = 1

\* A CalendarRunner call was made in this step.
RunnerCall(name) == last_op' # last_op /\ last_op'.name = name

\* C8: start() on a running runner spawns nothing and leaves the running loop,
\* its captured interval and callback and the flag as they are; start() on a
\* runner that is not running (also after a completed stop) spawns exactly
\* one loop, with the arguments of that call.  A runner never has two live
\* loops.
C8_StartWhileRunningIsNoop ==
    /\ [][RunnerCall("start") =>
            IF last_op'.was_running
            THEN /\ UNCHANGED <<is_running, thread_handle, tpc, targs,
                                next_thread>>
                 /\ is_running[last_op'.runner]
            ELSE /\ next_thread' = next_thread + 1
                 /\ tpc' = [tpc EXCEPT ![next_thread] = "check"]
                 /\ targs' = [targs EXCEPT ![next_thread] =
                                [runner |-> last_op'.runner,
                                 interval |-> last_op'.interval,
                                 callback |-> last_op'.callback]]
                 /\ thread_handle'[last_op'.runner] = next_thread
                 /\ is_running'[last_op'.runner]
         ]_vars
    /\ [](\A r \in Runners :
            Cardinality({t \in ThreadsOf(r) : Alive(t)}) <= 1)

\* C8 witness: start() was called with other arguments on a runner whose loop
\* is alive.
C8_Witness ==
    /\ last_op.name = "start"
    /\ last_op.was_running
    /\ \E t \in ThreadsOf(last_op.runner) :
          /\ Alive(t)
          /\ targs[t].callback # last_op.callback

\* C10: cancellation is cooperative and stop() returns.  A tick is left only
\* after its last pass; once the flag is cleared the loop finishes at most one
\* more tick; and every stop() that waits in join gets to return.
C10_CooperativeStop ==
    /\ [][\A t \in Threads :
             (tpc[t] = "tick" /\ tpc'[t] # "tick") => stage = NumPasses]_vars
    /\ [](\A t \in Threads : late_ticks[t] <= 1)
    /\ \A h \in Hosts :
          (hpc[h] \in {"join", "drop_join"}) ~> (hpc[h] = "idle")

\* C10 witness: stop() is waiting in join while the loop it stops is in the
\* middle of a tick.
C10_Witness ==
    \E h \in Hosts :
        /\ hpc[h] = "join"
        /\ tpc[hjoin[h]] = "tick"
        /\ stage \in 1..(NumPasses - 1)

\* An actor is at a point where it reads or writes the world.
InTick(a) ==
    \/ \E t \in Threads : a = ThreadActor(t) /\ tpc[t] = "tick"
    \/ \E h \in Hosts : a = HostActor(h) /\ hpc[h] = "mt_tick"
InWorld(a) ==
    \/ InTick(a)
    \/ \E t \in Threads : a = ThreadActor(t) /\ tpc[t] = "cb_read"
    \/ \E h \in Hosts : a = HostActor(h) /\ hpc[h] \in {"q_read", "ret_read"}

\* C2: ticks are mutually exclusive.  At most one actor is inside the world
\* at any instant and it holds the mutex; while a tick is between two of its
\* passes the ticking actor is the only one to have touched the world since
\* the tick began.
C2_TicksMutuallyExclusive ==
    /\ Cardinality({a \in Actors : InWorld(a)}) <= 1
    /\ \A a \in Actors : InWorld(a) => world_lock = a
    /\ stage # 0 => \E a \in Actors : InTick(a) /\ last_access = a

\* C2 witness: a manual tick is between two passes while a Runner loop is
\* blocked in world.lock() for its own tick.
C2_Witness ==
    \E h \in Hosts, t \in Threads :
        /\ hpc[h] = "mt_tick"
        /\ stage \in 1..(NumPasses - 1)
        /\ tpc[t] = "lock"

\* C9: at most one Runner thread is alive at any instant.
C9_AtMostOneRunnerThread ==
    Cardinality({t \in Threads : Alive(t)}) <= 1


\* ------------------------------------------------------------------------
\* EventLog on its own: new(capacity), push, clear
\* ------------------------------------------------------------------------
MaxCap == 2
MaxPushes == 4

\* usize capacities EventLog::new is given.
LogCapacities == 0..MaxCap

\* Events pushed: a few that differ in type and date.
LogEvents == {Event("Birth", Date(StartYear, 1, 1)),
              Event("Death", Date(StartYear, 1, 1)),
              Event("Birth", Date(StartYear, 1, 2))}

LogPush(e) ==
    /\ lg_pushes < MaxPushes
    /\ lg' = EventLogPush(lg, e)
    /\ lg_before' = <<lg.events>>
    /\ lg_pushes' = lg_pushes + 1
    /\ UNCHANGED <<runnerVars, worldVars, stepVars>>

LogClear ==
    /\ lg.events # <<>>
    /\ lg' = EventLogClear(lg)
    /\ lg_before' = <<>>
    /\ UNCHANGED <<lg_pushes, runnerVars, worldVars, stepVars>>

NextLog ==
    \/ \E e \in LogEvents : LogPush(e)
    \/ LogClear

InitLogAny ==
    /\ \E cap \in LogCapacities : InitLog(cap)
    /\ InitRunner("lib")
    /\ InitWorld
    /\ InitSteps

SpecLog == InitLogAny /\ [][NextLog]_vars

\* C6: the event log never holds more events than its capacity, for every
\* capacity it can be constructed with; a push onto a full log removes
\* exactly the oldest retained event and appends the new one.
C6_LogWithinCapacity ==
    /\ Len(lg.events) <= lg.max_size
    /\ (lg_before # <<>> /\ Len(lg_before[1]) = lg.max_size /\ lg.max_size > 0)
          => /\ Len(lg.events) = lg.max_size
             /\ SubSeq(lg.events, 1, lg.max_size - 1) = Tail(lg_before[1])

\* ------------------------------------------------------------------------
\* Persons and the passes of SimulationWorld::tick
\* ------------------------------------------------------------------------
MaxEntities == 3
MaxCalls == 5
MaxPersonId == 3

\* hecs entity handles are 1..; 0 stands for an absent Partner / Mother
\* component.  A handle is never given to two spawns of one world; after
\* World::clear() no old handle is held anywhere and numbering restarts.
NoEntity == 0

Sexes == {"Male", "Female"}

\* Tiles the host seeds on, and the (sex, age) pairs the seeding draws, of
\* {Male, Female} x 0..59: a young man, a young woman, and a woman too old
\* for him and for children.
Tiles == {0, 1}
SeedDraws == {<<"Male", 20>>, <<"Female", 20>>, <<"Female", 40>>}

\* Fertility::default()
DefaultFertility ==
    [last_birth_year |-> 0, last_birth_month |-> 0, children_born |-> 0]

\* format!("Person_{}", id) / format!("Child_{}", id)
Name(prefix, id) == <<prefix, id>>

\* u16::saturating_sub
SatSub(a, b) == IF a >= b THEN a - b ELSE 0

\* BirthDate::from_age
FromAge(age, cal) ==
    [year |-> SatSub(cal.year, age), month |-> cal.month, day |-> cal.day]

\* BirthDate::age_years
AgeYears(birth, cal) == SatSub(cal.year, birth.year)

\* BirthDate::can_have_children(Sex::Female, cal)
CanHaveChildren(birth, cal) ==
    AgeYears(birth, cal) >= 16 /\ AgeYears(birth, cal) <= 33

\* Mutant: an interval check that always passes.
CanGiveBirthAlways(f, cal) == TRUE

\* Fertility::can_give_birth
CanGiveBirth(f, cal) ==
    \/ f.last_birth_year = 0
    \/ (cal.year - f.last_birth_year) * 12
          + (cal.month - f.last_birth_month) >= 18

\* Mutant: a record_birth whose counter wraps in its 8 bits.
RecordBirthWrapping(f, cal) ==
    [last_birth_year |-> cal.year, last_birth_month |-> cal.month,
     children_born |-> (f.children_born + 1) % 256]

\* Fertility::record_birth (children_born is a u8, saturating)
RecordBirth(f, cal) ==
    [last_birth_year |-> cal.year, last_birth_month |-> cal.month,
     children_born |-> IF f.children_born >= 255 THEN 255
                       ELSE f.children_born + 1]

\* Pregnant::new: due nine months from now.
PregnantNew(cal) ==
    IF cal.month + 9 > 12
    THEN [due_year |-> (cal.year + 1) % YearModulus,
          due_month |-> cal.month + 9 - 12]
    ELSE [due_year |-> cal.year, due_month |-> cal.month + 9]

\* due_year += 1 is reached with the year at its maximum.
PregnantNewOverflows(cal) ==
    cal.month + 9 > 12 /\ cal.year + 1 >= YearModulus

\* Pregnant::is_due
IsDue(p, cal) ==
    \/ cal.year > p.due_year
    \/ cal.year = p.due_year /\ cal.month >= p.due_month

\* Calendar::advance: one day on, months of 8 days, years of 12 months.  The
\* year is a u16: this is the result where self.year += 1 wraps.
Advance(cal) ==
    IF cal.day + 1 > DAYS_PER_MONTH
    THEN IF cal.month + 1 > MONTHS_PER_YEAR
         THEN Date((cal.year + 1) % YearModulus, 1, 1)
         ELSE Date(cal.year, cal.month + 1, 1)
    ELSE Date(cal.year, cal.month, cal.day + 1)

\* self.year += 1 is reached with the year at its maximum: the addition
\* panics where overflow checks are compiled in and wraps where they are not.
AdvanceOverflows(cal) ==
    /\ cal.day + 1 > DAYS_PER_MONTH
    /\ cal.month + 1 > MONTHS_PER_YEAR
    /\ cal.year + 1 >= YearModulus

\* The calendar a panic in self.year += 1 leaves: day and month are already
\* assigned.
AdvancePanicked(cal) == Date(cal.year, 1, 1)

\* The components a spawn gives a person; Option components are <<>> or
\* <<value>>.
NewPerson(id, first, sex, birth, tile, mother, fert) ==
    [id |-> id, first_name |-> first, last_name |-> "", sex |-> sex,
     birth |-> birth, tile |-> tile, partner |-> NoEntity, mother |-> mother,
     fert |-> fert, preg |-> <<>>]

RECURSIVE SortedSeq(_)
\* The elements of a set of handles in ascending order.
SortedSeq(S) ==
    IF S = {} THEN <<>>
    ELSE LET m == CHOOSE x \in S : \A y \in S : x <= y
         IN <<m>> \o SortedSeq(S \ {m})

\* All orders a shuffle can leave a list in.
Perms(S) ==
    {f \in [1..Cardinality(S) -> S] :
        \A i, j \in 1..Cardinality(S) : i # j => f[i] # f[j]}

RemoveAt(q, pos) ==
    [i \in 1..(Len(q) - 1) |-> IF i < pos THEN q[i] ELSE q[i + 1]]

\* Death pass: the entities whose draw fell below their daily mortality are
\* destroyed with all their components.  Every person's threshold lies
\* strictly between 0 and 1, so any set of persons can die.
DeathPass(P, D) == [e \in (DOMAIN P) \ D |-> P[e]]

\* Matchmaking candidates of one sex on one tile: no Partner component,
\* age >= 16.
\* Mutant: candidates that include the holders of a link to a dead partner.
SinglesOrBereaved(P, cal, sex, tile) ==
    {e \in DOMAIN P : /\ P[e].partner \notin DOMAIN P
                      /\ P[e].sex = sex
                      /\ P[e].tile = tile
                      /\ AgeYears(P[e].birth, cal) >= 16}

Singles(P, cal, sex, tile) ==
    {e \in DOMAIN P : /\ P[e].partner = NoEntity
                      /\ P[e].sex = sex
                      /\ P[e].tile = tile
                      /\ AgeYears(P[e].birth, cal) >= 16}

\* Mutant: a pairing that takes any woman of the list.
CompatibleAny(P, cal, m, w) == TRUE

Compatible(P, cal, m, w) ==
    LET d == AgeYears(P[w].birth, cal) - AgeYears(P[m].birth, cal)
    IN (IF d < 0 THEN 0 - d ELSE d) <= 15

RECURSIVE FirstFitHeadOnly(_, _, _, _)
\* Mutant: a pairing in which a man looks at the first woman of the list
\* only.
FirstFitHeadOnly(P, cal, men, women) ==
    IF men = <<>> \/ women = <<>> THEN {}
    ELSE IF Compatible(P, cal, Head(men), Head(women))
         THEN {<<Head(men), Head(women)>>}
                 \cup FirstFitHeadOnly(P, cal, Tail(men), Tail(women))
         ELSE FirstFitHeadOnly(P, cal, Tail(men), women)

RECURSIVE FirstFit(_, _, _, _)
\* For each man in list order: the first woman still in the list whose age
\* differs by at most 15 years; she leaves the list.
FirstFit(P, cal, men, women) ==
    IF men = <<>> THEN {}
    ELSE LET m == Head(men)
             hits == {i \in 1..Len(women) : Compatible(P, cal, m, women[i])}
         IN IF hits = {} THEN FirstFit(P, cal, Tail(men), women)
            ELSE LET pos == CHOOSE i \in hits : \A j \in hits : i <= j
                 IN {<<m, women[pos]>>}
                      \cup FirstFit(P, cal, Tail(men), RemoveAt(women, pos))

\* The couples one tile can yield, over all shuffles of its two lists.
TileOutcomes(P, cal, tile) ==
    {FirstFit(P, cal, mp, wp) :
        mp \in Perms(Singles(P, cal, "Male", tile)),
        wp \in Perms(Singles(P, cal, "Female", tile))}

RECURSIVE OutcomesOver(_, _, _)
OutcomesOver(P, cal, ts) ==
    IF ts = {} THEN {{}}
    ELSE LET t == CHOOSE x \in ts : TRUE
         IN {a \cup b : a \in TileOutcomes(P, cal, t),
                        b \in OutcomesOver(P, cal, ts \ {t})}

\* Every set of couples the matchmaking pass can form.
MatchOutcomes(P, cal) == OutcomesOver(P, cal, Tiles)

\* The couples formed when both shuffles leave the lists in query order.
UnshuffledMatch(P, cal) ==
    UNION {FirstFit(P, cal, SortedSeq(Singles(P, cal, "Male", t)),
                    SortedSeq(Singles(P, cal, "Female", t))) : t \in Tiles}

\* Mutant: a marriage that attaches no Fertility to the wife.
MarryWithoutFertility(P, M) ==
    [e \in DOMAIN P |->
        IF \E c \in M : c[1] = e
        THEN [P[e] EXCEPT !.partner = (CHOOSE c \in M : c[1] = e)[2]]
        ELSE IF \E c \in M : c[2] = e
        THEN [P[e] EXCEPT !.partner = (CHOOSE c \in M : c[2] = e)[1]]
        ELSE P[e]]

\* The partner link is put on both; a wife without Fertility gets the default.
Marry(P, M) ==
    [e \in DOMAIN P |->
        IF \E c \in M : c[1] = e
        THEN [P[e] EXCEPT !.partner = (CHOOSE c \in M : c[1] = e)[2]]
        ELSE IF \E c \in M : c[2] = e
        THEN [P[e] EXCEPT !.partner = (CHOOSE c \in M : c[2] = e)[1],
                          !.fert = IF @ = <<>> THEN <<DefaultFertility>> ELSE @]
        ELSE P[e]]

\* Mutant: dissolution that finds nobody widowed.
WidowedNone(P) == {}

\* Mutant: dissolution that takes every holder of a Partner for widowed.
WidowedAll(P) == {e \in DOMAIN P : P[e].partner # NoEntity}

\* dissolution_system, first loop: holders of a Partner whose entity is gone.
Widowed(P) ==
    {e \in DOMAIN P : P[e].partner # NoEntity /\ P[e].partner \notin DOMAIN P}

\* Mutant: a dissolution that also removes the Mother component of those
\* whose mother is gone.
DissolveAlsoMothers(P) ==
    [e \in DOMAIN P |->
        [P[e] EXCEPT
            !.partner = IF e \in Widowed(P) THEN NoEntity ELSE @,
            !.mother = IF @ \in DOMAIN P THEN @ ELSE NoEntity]]

\* dissolution_system, second loop: their Partner component is removed.
Dissolve(P) ==
    [e \in DOMAIN P |->
        IF e \in Widowed(P) THEN [P[e] EXCEPT !.partner = NoEntity] ELSE P[e]]

\* pregnancy_system, the query and its two tests: BirthDate and Fertility,
\* with Partner, without Pregnant, fertile age, birth interval passed.
Eligible(P, cal) ==
    {e \in DOMAIN P : /\ P[e].fert # <<>>
                      /\ P[e].partner # NoEntity
                      /\ P[e].preg = <<>>
                      /\ CanHaveChildren(P[e].birth, cal)
                      /\ CanGiveBirth(P[e].fert[1], cal)}

\* pregnancy_system, second loop: Pregnant::new(cal) for those whose draw
\* succeeded (the rate is always strictly between 0 and 1).
Conceive(P, C, cal) ==
    [e \in DOMAIN P |->
        IF e \in C THEN [P[e] EXCEPT !.preg = <<PregnantNew(cal)>>] ELSE P[e]]

\* delivery_system, first loop: the pregnant whose due month has come.
Due(P, cal) == {e \in DOMAIN P : P[e].preg # <<>> /\ IsDue(P[e].preg[1], cal)}

\* Mutant: a delivery that hands out the counter without advancing it.
AfterChildIdStuck(n) == n

\* *next_person_id += 1
AfterChildId(n) == n + 1

\* Mutant: a delivery pass that creates no child.
DeliverNobody(S, mothers, sx, cal) == S

RECURSIVE Deliver(_, _, _, _)
\* delivery_system, second loop, for the mothers in list order: Pregnant
\* removed, Fertility updated, the child spawned with the next person id, the
\* drawn sex, today's birth date, the mother's handle and tile, and a default
\* Fertility if female.  S carries persons, next_person_id and next_entity.
Deliver(S, mothers, sx, cal) ==
    IF mothers = <<>> THEN S
    ELSE LET m == Head(mothers)
             mum == [S.persons[m] EXCEPT
                        !.preg = <<>>,
                        !.fert = IF @ = <<>> THEN @
                                 ELSE <<RecordBirth(@[1], cal)>>]
             id == S.next_person_id
             child == NewPerson(id, Name("Child", id), sx[m],
                                Date(cal.year, cal.month, cal.day),
                                mum.tile, m,
                                IF sx[m] = "Female" THEN <<DefaultFertility>>
                                ELSE <<>>)
         IN Deliver([persons |-> [S.persons EXCEPT ![m] = mum]
                                   @@ (S.next_entity :> child),
                     next_person_id |-> AfterChildId(id),
                     next_entity |-> S.next_entity + 1],
                    Tail(mothers), sx, cal)

\* Mutant: a logging loop that pushes nothing.
PushNothing(log, e, n) == log

RECURSIVE PushN(_, _, _)
\* for _ in 0..n { event_log.push(e) }
PushN(log, e, n) == IF n = 0 THEN log ELSE PushN(EventLogPush(log, e), e, n - 1)

\* ------------------------------------------------------------------------
\* SimulationWorld: tick, seeding, id allocation
\* ------------------------------------------------------------------------

\* The SimulationWorld as one value.
World ==
    [persons |-> persons, calendar |-> calendar,
     next_person_id |-> next_person_id, event_log |-> event_log,
     next_entity |-> next_entity]

\* SimulationWorld::tick with the draws of its passes given: D the persons
\* whose death draw succeeds, M the couples the shuffles yield, C the women
\* whose conception draw succeeds, sx the sex drawn for each mother's child.
\* Advance the calendar, then death, matchmaking, dissolution, conception and
\* delivery, then log the births, deaths, marriages, pregnancies and
\* dissolutions of the tick, in that order.
TickWith(W, D, M, C, sx) ==
    LET cal == Advance(W.calendar)
        P1 == DeathPass(W.persons, D)
        P2 == Marry(P1, M)
        P3 == Dissolve(P2)
        P4 == Conceive(P3, C, cal)
        due == Due(P4, cal)
        S == Deliver([persons |-> P4, next_person_id |-> W.next_person_id,
                      next_entity |-> W.next_entity],
                     SortedSeq(due), sx, cal)
        deaths == Cardinality(D)
        marriages == Cardinality(M)
        dissolutions == Cardinality(Widowed(P2))
        pregnancies == Cardinality(C)
        births == Cardinality(due)
        L1 == PushN(W.event_log, Event("Birth", cal), births)
        L2 == PushN(L1, Event("Death", cal), deaths)
        L3 == PushN(L2, Event("Marriage", cal), marriages)
        L4 == PushN(L3, Event("PregnancyStarted", cal), pregnancies)
        L5 == PushN(L4, Event("Dissolution", cal), dissolutions)
    IN [persons |-> S.persons, calendar |-> cal,
        next_person_id |-> S.next_person_id, event_log |-> L5,
        next_entity |-> S.next_entity,
        result |-> [births |-> births, deaths |-> deaths,
                    marriages |-> marriages, pregnancies |-> pregnancies,
                    dissolutions |-> dissolutions,
                    population |-> Cardinality(DOMAIN S.persons)]]

\* The draws a tick can make in world W.
MatchChoices(W, D) == MatchOutcomes(DeathPass(W.persons, D), Advance(W.calendar))

ConceiveChoices(W, D, M) ==
    SUBSET Eligible(Dissolve(Marry(DeathPass(W.persons, D), M)),
                    Advance(W.calendar))

SexChoices(W, D, M, C) ==
    [Due(Conceive(Dissolve(Marry(DeathPass(W.persons, D), M)), C,
                  Advance(W.calendar)),
         Advance(W.calendar)) -> Sexes]

\* A tick in which no death and no conception draw succeeds, the shuffles
\* leave the lists in query order and every child drawn has sex s.
QuietTick(W, s) ==
    LET M == UnshuffledMatch(W.persons, Advance(W.calendar))
    IN TickWith(W, {}, M, {}, [e \in DOMAIN W.persons |-> s])

RECURSIVE QuietRun(_, _, _)
\* n such ticks in a row; the counts of the ticks are summed.
QuietRun(W, n, s) ==
    IF n = 0 THEN W
    ELSE LET T == QuietTick(W, s)
             R == [T EXCEPT !.result =
                     [births |-> W.result.births + @.births,
                      deaths |-> W.result.deaths + @.deaths,
                      marriages |-> W.result.marriages + @.marriages,
                      pregnancies |-> W.result.pregnancies + @.pregnancies,
                      dissolutions |-> W.result.dissolutions + @.dissolutions,
                      population |-> @.population]]
         IN IF R.calendar = Advance(W.calendar) THEN QuietRun(R, n - 1, s)
            ELSE W

NoTicks ==
    [births |-> 0, deaths |-> 0, marriages |-> 0, pregnancies |-> 0,
     dissolutions |-> 0, population |-> 0]

Max(a, b) == IF a >= b THEN a ELSE b

\* The world variables take the fields of W.
Becomes(W) ==
    /\ persons' = W.persons
    /\ calendar' = W.calendar
    /\ next_person_id' = W.next_person_id
    /\ event_log' = W.event_log
    /\ next_entity' = W.next_entity

\* The highest id handed out once the ids from..(to - 1) have been.
IssuedAfter(from, to) == IF to > from THEN Max(issued, to - 1) ELSE issued

\* tick(): one tick with every draw free.
Tick ==
    /\ calls < MaxCalls
    /\ \E D \in SUBSET DOMAIN persons :
       \E M \in MatchChoices(World, D) :
       \E C \in ConceiveChoices(World, D, M) :
       \E sx \in SexChoices(World, D, M, C) :
          LET T == TickWith(World, D, M, C, sx)
          IN /\ T.next_entity <= MaxEntities + 1
             /\ T.next_person_id <= MaxPersonId + 1
             /\ Becomes(T)
             /\ issued' = IssuedAfter(next_person_id, T.next_person_id)
             /\ last' = [op |-> "tick", ok |-> TRUE,
                         ids |-> next_person_id..(T.next_person_id - 1),
                         at |-> calls + 1, result |-> T.result]
    /\ calls' = calls + 1
    /\ UNCHANGED <<json, file, runnerVars, logVars,
                   stepVars>>

\* Persons per seeding call, and the length of a multi-tick call: 71 days
\* after the first day of a pregnancy its due month begins.
SeedCounts == {2}
LongRun == 71

\* self.next_person_id += 1
AfterSeedId(n) == n + 1

RECURSIVE SeedLoop(_, _, _, _)
\* seed_population_on_tile, the loop body for each draw (sex, age) in turn:
\* the next id, the drawn sex, a birth date that many years back, the tile.
SeedLoop(S, draws, tile, cal) ==
    IF draws = <<>> THEN S
    ELSE LET id == S.next_person_id
             p == NewPerson(id, Name("Person", id), Head(draws)[1],
                            FromAge(Head(draws)[2], cal), tile, NoEntity, <<>>)
         IN SeedLoop([persons |-> S.persons @@ (S.next_entity :> p),
                      next_person_id |-> AfterSeedId(id),
                      next_entity |-> S.next_entity + 1],
                     Tail(draws), tile, cal)

\* seed_population_on_tile(count, tile_id)
Seed(count, tile) ==
    /\ calls < MaxCalls
    /\ calls' = calls + 1
    /\ next_entity + count <= MaxEntities + 1
    /\ next_person_id + count <= MaxPersonId + 1
    /\ \E draws \in [1..count -> SeedDraws] :
          LET S == SeedLoop([persons |-> persons,
                             next_person_id |-> next_person_id,
                             next_entity |-> next_entity],
                            draws, tile, calendar)
          IN /\ persons' = S.persons
             /\ next_person_id' = S.next_person_id
             /\ next_entity' = S.next_entity
             /\ issued' = IssuedAfter(next_person_id, S.next_person_id)
             /\ last' = [op |-> "seed", ok |-> TRUE,
                         ids |-> next_person_id..(S.next_person_id - 1),
                         at |-> calls + 1]
    /\ UNCHANGED <<calendar, event_log, json, file, runnerVars, logVars,
                   stepVars>>

\* tick_many(count) under one lock, its draws as in QuietTick.  The host
\* makes this long call while a pregnancy is under way, to reach its term.
TickMany(n) ==
    /\ calls < MaxCalls
    /\ \E e \in DOMAIN persons : persons[e].preg # <<>>
    /\ \E s \in Sexes :
          LET T == QuietRun(World @@ [result |-> NoTicks], n, s)
          IN /\ T.next_entity <= MaxEntities + 1
             /\ T.next_person_id <= MaxPersonId + 1
             /\ Becomes(T)
             /\ issued' = IssuedAfter(next_person_id, T.next_person_id)
             /\ last' = [op |-> "tick_many", ok |-> TRUE,
                         ids |-> next_person_id..(T.next_person_id - 1),
                         at |-> calls + 1, result |-> T.result]
    /\ calls' = calls + 1
    /\ UNCHANGED <<json, file, runnerVars, logVars,
                   stepVars>>

\* get_next_person_id(): returns the counter and advances it.
GetNextPersonId ==
    /\ calls < MaxCalls
    /\ calls' = calls + 1
    /\ next_person_id + 1 <= MaxPersonId + 1
    /\ next_person_id' = next_person_id + 1
    /\ issued' = IssuedAfter(next_person_id, next_person_id + 1)
    /\ last' = [op |-> "get_next_person_id", ok |-> TRUE,
                ids |-> {next_person_id}, at |-> calls + 1]
    /\ UNCHANGED <<persons, calendar, event_log, next_entity, json, file,
                   runnerVars, logVars,
                   stepVars>>

\* Batch sizes the host asks for.
BatchCounts == {2}

\* get_person_id_batch(count): returns start..start+count-1, counter += count.
GetPersonIdBatch(count) ==
    /\ calls < MaxCalls
    /\ calls' = calls + 1
    /\ next_person_id + count <= MaxPersonId + 1
    /\ next_person_id' = next_person_id + count
    /\ issued' = IssuedAfter(next_person_id, next_person_id + count)
    /\ last' = [op |-> "get_person_id_batch", ok |-> TRUE,
                ids |-> next_person_id..(next_person_id + count - 1),
                at |-> calls + 1]
    /\ UNCHANGED <<persons, calendar, event_log, next_entity, json, file,
                   runnerVars, logVars,
                   stepVars>>

\* ------------------------------------------------------------------------
\* Export and import (JSON), save and load (bincode file)
\* ------------------------------------------------------------------------

\* Mutant: an export that resolves no Partner / Mother reference.
LinkIdDropped(P, h) == <<>>

\* world.get::<&Partner>(entity).ok().and_then(|p| entity_to_person_id.get(&p.0)):
\* the person id behind a handle, None without the component or when the
\* handle is of no living person.
LinkId(P, h) == IF h # NoEntity /\ h \in DOMAIN P THEN <<P[h].id>> ELSE <<>>

\* From<Sex> for ExportedSex and back.
ExportedSex(sex) == IF sex = "Male" THEN "Male" ELSE "Female"
SexFrom(sex) == IF sex = "Male" THEN "Male" ELSE "Female"

\* build_export_data, the ExportedPerson of one entity.
ExportPerson(P, e) ==
    [person_id |-> P[e].id, tile_id |-> P[e].tile,
     first_name |-> P[e].first_name, last_name |-> P[e].last_name,
     sex |-> ExportedSex(P[e].sex),
     birth_year |-> P[e].birth.year, birth_month |-> P[e].birth.month,
     birth_day |-> P[e].birth.day,
     partner_id |-> LinkId(P, P[e].partner),
     mother_id |-> LinkId(P, P[e].mother),
     fertility |-> P[e].fert, pregnancy |-> P[e].preg]

\* build_export_data: version 1, the calendar, the id counter, every person
\* (query order: here by handle) and the event log as get_all() returns it.
BuildExportData(W) ==
    LET order == SortedSeq(DOMAIN W.persons)
    IN [version |-> 1,
        calendar |-> [year |-> W.calendar.year, month |-> W.calendar.month,
                      day |-> W.calendar.day],
        next_person_id |-> W.next_person_id,
        people |-> [i \in 1..Len(order) |-> ExportPerson(W.persons, order[i])],
        event_log |-> EventLogGetAll(W.event_log)]

\* serde_json::to_string / from_str and bincode::serialize / deserialize of
\* these structs (integers, strings, unit enums, Option, Vec) are lossless;
\* a text is kept as the document it encodes plus whether it parses.
ToJson(data) == [wellformed |-> TRUE, doc |-> data]
FromJson(text) == IF text.wellformed THEN <<text.doc>> ELSE <<>>

\* export_world()
ExportWorld(W) == ToJson(BuildExportData(W))

\* Mutant: an import that takes any version.
VersionSupportedAny(v) == TRUE

\* data.version != 1 => Err("Unsupported export version")
VersionSupported(v) == v = 1

\* import pass 1: one spawn per exported person, in order, with Person,
\* TileId, BirthDate, Sex and the optional Fertility and Pregnant.
SpawnAll(people) ==
    [i \in 1..Len(people) |->
        [id |-> people[i].person_id, first_name |-> people[i].first_name,
         last_name |-> people[i].last_name, sex |-> SexFrom(people[i].sex),
         birth |-> Date(people[i].birth_year, people[i].birth_month,
                        people[i].birth_day),
         tile |-> people[i].tile_id, partner |-> NoEntity,
         mother |-> NoEntity, fert |-> people[i].fertility,
         preg |-> people[i].pregnancy]]

\* person_id_to_entity after pass 1: a later insert of the same id wins.
PersonIdToEntity(people) ==
    [pid \in {people[i].person_id : i \in 1..Len(people)} |->
        CHOOSE i \in 1..Len(people) :
            /\ people[i].person_id = pid
            /\ \A j \in 1..Len(people) : people[j].person_id = pid => j <= i]

RECURSIVE LinkAll(_, _, _, _)
\* import pass 2, from the i-th exported person on: the Partner and Mother
\* components of those whose referenced id is in the map.  S carries the
\* persons and the two counters.
LinkAll(S, people, map, i) ==
    IF i > Len(people) THEN S
    ELSE LET e == map[people[i].person_id]
             hasP == people[i].partner_id # <<>>
                        /\ people[i].partner_id[1] \in DOMAIN map
             hasM == people[i].mother_id # <<>>
                        /\ people[i].mother_id[1] \in DOMAIN map
             p1 == IF hasP
                   THEN [S.persons[e] EXCEPT
                            !.partner = map[people[i].partner_id[1]]]
                   ELSE S.persons[e]
             p2 == IF hasM
                   THEN [p1 EXCEPT !.mother = map[people[i].mother_id[1]]]
                   ELSE p1
         IN LinkAll([persons |-> [S.persons EXCEPT ![e] = p2],
                     partners |-> S.partners + (IF hasP THEN 1 ELSE 0),
                     mothers |-> S.mothers + (IF hasM THEN 1 ELSE 0)],
                    people, map, i + 1)

RECURSIVE PushAll(_, _)
\* for event in data.event_log { event_log.push(event) }
PushAll(log, evs) ==
    IF evs = <<>> THEN log ELSE PushAll(EventLogPush(log, Head(evs)), Tail(evs))

\* Mutant: an import that spawns and links the persons of the snapshot but
\* keeps the calendar and the id counter the world had.
ImportKeepingCalendar(W, data) ==
    LET S == LinkAll([persons |-> SpawnAll(data.people),
                      partners |-> 0, mothers |-> 0],
                     data.people, PersonIdToEntity(data.people), 1)
    IN [ok |-> TRUE,
        world |-> [persons |-> S.persons, calendar |-> W.calendar,
                   next_person_id |-> W.next_person_id,
                   event_log |-> W.event_log,
                   next_entity |-> Len(data.people) + 1],
        result |-> [population |-> Len(data.people),
                    partners |-> S.partners, mothers |-> S.mothers,
                    calendar_year |-> W.calendar.year]]

\* import_from_export_data: refuse a version other than 1 before touching
\* anything; else clear the world, take calendar and id counter, spawn, link,
\* and refill the cleared event log in the order of the payload.
ImportFromExportData(W, data) ==
    IF ~VersionSupported(data.version)
    THEN [ok |-> FALSE, world |-> W, error |-> "Unsupported export version"]
    ELSE LET S == LinkAll([persons |-> SpawnAll(data.people),
                           partners |-> 0, mothers |-> 0],
                          data.people, PersonIdToEntity(data.people), 1)
         IN [ok |-> TRUE,
             world |-> [persons |-> S.persons,
                        calendar |-> Date(data.calendar.year,
                                          data.calendar.month,
                                          data.calendar.day),
                        next_person_id |-> data.next_person_id,
                        event_log |-> PushAll(EventLogClear(W.event_log),
                                              data.event_log),
                        next_entity |-> Len(data.people) + 1],
             result |-> [population |-> Len(data.people),
                         partners |-> S.partners, mothers |-> S.mothers,
                         calendar_year |-> data.calendar.year]]

\* import_world(json): a text that does not parse is refused first.
ImportWorld(W, text) ==
    IF FromJson(text) = <<>>
    THEN [ok |-> FALSE, world |-> W, error |-> "JSON parse error"]
    ELSE ImportFromExportData(W, FromJson(text)[1])

\* What the host passes to save_to_file besides the path.
SaveSeeds == {12345}
NodeStates == {"{}"}

\* A version other than 1, as a newer writer would put.
OtherVersion == 2

\* save_to_file: SaveFile { version: 1, seed, ecs_data, node_state } encoded
\* and put at the path (written to path.tmp, then renamed).
SaveFileOf(W, seed, node_state_json) ==
    [decodable |-> TRUE,
     doc |-> [version |-> 1, seed |-> seed, ecs_data |-> BuildExportData(W),
              node_state |-> [utf8 |-> TRUE, text |-> node_state_json]]]

\* save_file.version != 1 => Err("Unsupported save file version")
SaveVersionSupported(v) == v = 1

\* Mutant: a load that takes the node state bytes without validating them.
NodeStateIsTextAny(ns) == TRUE

\* String::from_utf8(save_file.node_state) succeeds.
NodeStateIsText(ns) == ns.utf8

\* load_from_file: read, decode, version check, UTF-8 check of the node
\* state, and only then import_from_export_data.
LoadFromFile(W, f) ==
    IF f = NoFile
    THEN [ok |-> FALSE, world |-> W, error |-> "Failed to read save file"]
    ELSE IF ~f[1].decodable
    THEN [ok |-> FALSE, world |-> W, error |-> "Bincode deserialize error"]
    ELSE IF ~SaveVersionSupported(f[1].doc.version)
    THEN [ok |-> FALSE, world |-> W, error |-> "Unsupported save file version"]
    ELSE IF ~NodeStateIsText(f[1].doc.node_state)
    THEN [ok |-> FALSE, world |-> W, error |-> "Invalid UTF-8 in node_state"]
    ELSE LET R == ImportFromExportData(W, f[1].doc.ecs_data)
         IN IF R.ok
            THEN [ok |-> TRUE, world |-> R.world,
                  result |-> [import_result |-> R.result,
                              seed |-> f[1].doc.seed,
                              node_state_json |-> f[1].doc.node_state.text]]
            ELSE R

\* The host takes an export of the world.
HostExport ==
    /\ calls < MaxCalls
    /\ json' = <<ExportWorld(World)>>
    /\ calls' = calls + 1
    /\ last' = [op |-> "export", ok |-> TRUE, ids |-> {}, at |-> calls + 1]
    /\ UNCHANGED <<persons, calendar, next_person_id, event_log, next_entity,
                   file, issued, runnerVars, logVars,
                   stepVars>>

\* The text handed to import_world need not be an untouched export: the host
\* may hold one of another version or one that does not parse.
HostEditJson(kind) ==
    /\ calls < MaxCalls
    /\ json # NoJson
    /\ json[1].wellformed /\ json[1].doc.version = 1
    /\ json' = IF kind = "version"
               THEN <<[json[1] EXCEPT !.doc.version = OtherVersion]>>
               ELSE <<[json[1] EXCEPT !.wellformed = FALSE]>>
    /\ calls' = calls + 1
    /\ last' = [op |-> "edit_json", ok |-> TRUE, ids |-> {}, at |-> calls + 1]
    /\ UNCHANGED <<persons, calendar, next_person_id, event_log, next_entity,
                   file, issued, runnerVars, logVars,
                   stepVars>>

\* import_world(json) with the text the host holds.
HostImport ==
    /\ calls < MaxCalls
    /\ json # NoJson
    /\ LET R == ImportWorld(World, json[1])
       IN /\ IF R.ok THEN Becomes(R.world)
             ELSE UNCHANGED <<persons, calendar, next_person_id, event_log, next_entity>>
          /\ last' = [op |-> "import", ok |-> R.ok, ids |-> {},
                      at |-> calls + 1,
                      round_trip |-> json[1] = ExportWorld(World)]
    /\ calls' = calls + 1
    /\ UNCHANGED <<json, file, issued, runnerVars, logVars,
                   stepVars>>

\* What the saved world holds, counted on the entity store: persons, Partner
\* components, Mother components, and the calendar year.
Census(W) ==
    [population |-> Cardinality(DOMAIN W.persons),
     partners |-> Cardinality({e \in DOMAIN W.persons :
                                  W.persons[e].partner # NoEntity}),
     mothers |-> Cardinality({e \in DOMAIN W.persons :
                                 W.persons[e].mother # NoEntity}),
     calendar_year |-> W.calendar.year]

\* save_to_file(node_state_json, seed, path)
HostSave(seed, node_state_json) ==
    /\ calls < MaxCalls
    /\ file' = <<SaveFileOf(World, seed, node_state_json)>>
    /\ calls' = calls + 1
    /\ last' = [op |-> "save", ok |-> TRUE, ids |-> {}, at |-> calls + 1,
                saved |-> Census(World), seed |-> seed,
                node_state_json |-> node_state_json]
    /\ UNCHANGED <<persons, calendar, next_person_id, event_log, next_entity,
                   json, issued, runnerVars, logVars,
                   stepVars>>

\* The file at the path need not be an untouched save: garbled bytes, a
\* version other than 1, or a node state that is not UTF-8.
HostEditFile(kind) ==
    /\ calls < MaxCalls
    /\ file # NoFile
    /\ file[1].decodable /\ file[1].doc.version = 1
    /\ file[1].doc.node_state.utf8
    /\ file' = CASE kind = "garble" -> <<[file[1] EXCEPT !.decodable = FALSE]>>
                 [] kind = "version" ->
                      <<[file[1] EXCEPT !.doc.version = OtherVersion]>>
                 [] OTHER ->
                      <<[file[1] EXCEPT !.doc.node_state.utf8 = FALSE]>>
    /\ calls' = calls + 1
    /\ last' = [op |-> "edit_file", ok |-> TRUE, ids |-> {}, at |-> calls + 1]
    /\ UNCHANGED <<persons, calendar, next_person_id, event_log, next_entity,
                   json, issued, runnerVars, logVars,
                   stepVars>>

\* The host may always load back the file it has just written; any other
\* load counts against the calls of a run like every call.
MayLoad == calls < MaxCalls \/ (calls = MaxCalls /\ last.op = "save")

\* load_from_file(path)
HostLoad ==
    /\ MayLoad
    /\ LET R == LoadFromFile(World, file)
       IN /\ IF R.ok THEN Becomes(R.world)
             ELSE UNCHANGED <<persons, calendar, next_person_id, event_log, next_entity>>
          /\ last' = [op |-> "load", ok |-> R.ok, ids |-> {},
                      at |-> calls + 1,
                      result |-> IF R.ok THEN <<R.result>> ELSE <<>>,
                      error |-> IF R.ok THEN "" ELSE R.error]
    /\ calls' = calls + 1
    /\ UNCHANGED <<json, file, issued, runnerVars, logVars,
                   stepVars>>

Next ==
    \/ \E c \in SeedCounts, t \in Tiles : Seed(c, t)
    \/ Tick
    \/ TickMany(LongRun)
    \/ GetNextPersonId
    \/ \E c \in BatchCounts : GetPersonIdBatch(c)
    \/ HostExport
    \/ \E k \in {"version", "truncate"} : HostEditJson(k)
    \/ HostImport
    \/ \E sd \in SaveSeeds, ns \in NodeStates : HostSave(sd, ns)
    \/ \E k \in {"garble", "version", "blob"} : HostEditFile(k)
    \/ HostLoad

Spec == InitLib /\ [][Next]_vars

\* ------------------------------------------------------------------------
\* save_to_file step by step, with I/O failures and crashes
\* ------------------------------------------------------------------------

\* fs::write hands the bytes to the file in this many write calls.
MaxChunks == 2

\* A file: the bytes it is to hold and how many of the chunks are in it.
FileOf(bytes, n) == [bytes |-> bytes, written |-> n]
Complete(f) == f = <<>> \/ f[1].written = MaxChunks
Saving == sv.pc # "idle"

\* save_to_file begins: build_export_data and bincode::serialize.
SaveBegin(seed, node_state_json) ==
    /\ ~Saving
    /\ calls < MaxCalls
    /\ calls' = calls + 1
    /\ sv' = [pc |-> "encoded", path |-> SavePath,
              encoded |-> <<SaveFileOf(World, seed, node_state_json)>>]
    /\ UNCHANGED <<pureVars, disk, tk, persons, calendar, next_person_id, event_log,
                   next_entity, json, file, issued, last, runnerVars, logVars>>

\* create_dir_all(parent)
SaveDir ==
    /\ sv.pc = "encoded"
    /\ sv' = [sv EXCEPT !.pc = "dir"]
    /\ UNCHANGED <<pureVars, disk, tk, worldVars, runnerVars, logVars>>

\* fs::write(&tmp_path, ..): the file is created, or truncated if it exists.
SaveCreate ==
    /\ sv.pc = "dir"
    /\ disk' = [disk EXCEPT ![TmpPath(sv.path)] = <<FileOf(sv.encoded[1], 0)>>]
    /\ sv' = [sv EXCEPT !.pc = "writing"]
    /\ UNCHANGED <<pureVars, tk, worldVars, runnerVars, logVars>>

\* fs::write(&tmp_path, ..): one more chunk reaches the file.
SaveWrite ==
    /\ sv.pc = "writing"
    /\ LET f == disk[TmpPath(sv.path)][1]
       IN /\ disk' = [disk EXCEPT ![TmpPath(sv.path)] =
                         <<FileOf(f.bytes, f.written + 1)>>]
          /\ sv' = [sv EXCEPT !.pc = IF f.written + 1 = MaxChunks
                                     THEN "written" ELSE "writing"]
    /\ UNCHANGED <<pureVars, tk, worldVars, runnerVars, logVars>>

\* fs::rename(&tmp_path, path): the target now is what the tmp path held, in
\* one step; then Ok(SaveStats).
SaveRename ==
    /\ sv.pc = "written"
    /\ disk' = IF TmpPath(sv.path) = sv.path THEN disk
               ELSE [disk EXCEPT ![sv.path] = disk[TmpPath(sv.path)],
                                 ![TmpPath(sv.path)] = <<>>]
    /\ sv' = NoSave
    /\ last' = [op |-> "save", ok |-> TRUE, ids |-> {}, at |-> calls]
    /\ UNCHANGED <<pureVars, tk, persons, calendar, next_person_id, event_log,
                   next_entity, json, file, calls, issued, runnerVars, logVars>>

\* An I/O error at the step the save is at: the ? returns Err and nothing
\* further is done.
SaveFails ==
    /\ Saving
    /\ sv' = NoSave
    /\ last' = [op |-> "save", ok |-> FALSE, ids |-> {}, at |-> calls]
    /\ UNCHANGED <<pureVars, disk, tk, persons, calendar, next_person_id, event_log,
                   next_entity, json, file, calls, issued, runnerVars, logVars>>

\* The process dies at the step the save is at and is started again: a new
\* world, the disk as it was left.
SaveCrash ==
    /\ Saving
    /\ sv' = NoSave
    /\ persons' = << >>
    /\ calendar' = Date(StartYear, 1, 1)
    /\ next_person_id' = FirstPersonId
    /\ event_log' = EventLogNew(DefaultLogCapacity)
    /\ next_entity' = 1
    /\ json' = NoJson
    /\ issued' = 0
    /\ last' = [op |-> "crash", ok |-> FALSE, ids |-> {}, at |-> calls]
    /\ UNCHANGED <<pureVars, disk, tk, file, calls, runnerVars, logVars>>

\* What load_from_file finds at a path: a file that lacks bytes does not
\* decode.
ReadPath(path) ==
    IF disk[path] = <<>> THEN NoFile
    ELSE <<[decodable |-> Complete(disk[path]),
            doc |-> disk[path][1].bytes.doc]>>

\* load_from_file(path) of what the disk holds.
SaveLoad ==
    /\ ~Saving
    /\ calls < MaxCalls
    /\ calls' = calls + 1
    /\ LET R == LoadFromFile(World, ReadPath(SavePath))
       IN /\ IF R.ok THEN Becomes(R.world)
             ELSE UNCHANGED <<persons, calendar, next_person_id, event_log,
                              next_entity>>
          /\ last' = [op |-> "load", ok |-> R.ok, ids |-> {},
                      at |-> calls + 1,
                      result |-> IF R.ok THEN <<R.result>> ELSE <<>>,
                      error |-> IF R.ok THEN "" ELSE R.error]
    /\ UNCHANGED <<json, file, issued, stepVars, runnerVars, logVars>>

NextSave ==
    \/ \E c \in SeedCounts, t \in Tiles : ~Saving /\ Seed(c, t)
    \/ \E sd \in SaveSeeds, ns \in NodeStates : SaveBegin(sd, ns)
    \/ SaveDir
    \/ SaveCreate
    \/ SaveWrite
    \/ SaveRename
    \/ SaveFails
    \/ SaveCrash
    \/ SaveLoad

SpecSave == InitLib /\ [][NextSave]_vars

\* ------------------------------------------------------------------------
\* SimulationWorld::tick step by step
\* ------------------------------------------------------------------------

Ticking == tk.pc # 0

\* The step of tick() whose turn it is.
PassDue(name) == tk.pc < NumPasses /\ Passes[tk.pc + 1] = name
Ran(name) == [tk EXCEPT !.pc = @ + 1, !.done = Append(@, name)]

\* self.calendar.advance()
TickAdvance ==
    /\ ~Ticking /\ PassDue("advance")
    /\ calls < MaxCalls
    /\ calls' = calls + 1
    /\ calendar' = Advance(calendar)
    /\ tk' = [Ran("advance") EXCEPT !.start = <<World>>]
    /\ UNCHANGED <<pureVars, disk, sv, persons, next_person_id, event_log, next_entity,
                   json, file, issued, last, runnerVars, logVars>>

\* systems::death_system
TickDeath ==
    /\ PassDue("death")
    /\ \E D \in SUBSET DOMAIN persons :
          /\ persons' = DeathPass(persons, D)
          /\ tk' = [Ran("death") EXCEPT !.D = D, !.deaths = Cardinality(D)]
    /\ UNCHANGED <<pureVars, disk, sv, calendar, next_person_id, event_log, next_entity,
                   json, file, calls, issued, last, runnerVars, logVars>>

\* systems::matchmaking_system
TickMatchmaking ==
    /\ PassDue("matchmaking")
    /\ \E M \in MatchOutcomes(persons, calendar) :
          /\ persons' = Marry(persons, M)
          /\ tk' = [Ran("matchmaking") EXCEPT
                       !.M = M, !.marriages = Cardinality(M)]
    /\ UNCHANGED <<pureVars, disk, sv, calendar, next_person_id, event_log, next_entity,
                   json, file, calls, issued, last, runnerVars, logVars>>

\* family_system: dissolution_system
TickDissolution ==
    /\ PassDue("dissolution")
    /\ persons' = Dissolve(persons)
    /\ tk' = [Ran("dissolution") EXCEPT
                 !.dissolutions = Cardinality(Widowed(persons))]
    /\ UNCHANGED <<pureVars, disk, sv, calendar, next_person_id, event_log, next_entity,
                   json, file, calls, issued, last, runnerVars, logVars>>

\* family_system: pregnancy_system
TickConception ==
    /\ PassDue("conception")
    /\ \E C \in SUBSET Eligible(persons, calendar) :
          /\ persons' = Conceive(persons, C, calendar)
          /\ tk' = [Ran("conception") EXCEPT
                       !.C = C, !.pregnancies = Cardinality(C)]
    /\ UNCHANGED <<pureVars, disk, sv, calendar, next_person_id, event_log, next_entity,
                   json, file, calls, issued, last, runnerVars, logVars>>

\* family_system: delivery_system
TickDelivery ==
    /\ PassDue("delivery")
    /\ LET due == Due(persons, calendar)
       IN \E sx \in [due -> Sexes] :
             LET S == Deliver([persons |-> persons,
                               next_person_id |-> next_person_id,
                               next_entity |-> next_entity],
                              SortedSeq(due), sx, calendar)
             IN /\ S.next_entity <= MaxEntities + 1
                /\ S.next_person_id <= MaxPersonId + 1
                /\ persons' = S.persons
                /\ next_person_id' = S.next_person_id
                /\ next_entity' = S.next_entity
                /\ issued' = IssuedAfter(next_person_id, S.next_person_id)
                /\ tk' = [Ran("delivery") EXCEPT
                             !.sx = sx, !.births = Cardinality(due)]
    /\ UNCHANGED <<pureVars, disk, sv, calendar, event_log, json, file, calls, last,
                   runnerVars, logVars>>

\* tick(): the events of the tick are logged and the TickResult returned.
TickLog ==
    /\ PassDue("log")
    /\ LET L1 == PushN(event_log, Event("Birth", calendar), tk.births)
           L2 == PushN(L1, Event("Death", calendar), tk.deaths)
           L3 == PushN(L2, Event("Marriage", calendar), tk.marriages)
           L4 == PushN(L3, Event("PregnancyStarted", calendar),
                       tk.pregnancies)
           L5 == PushN(L4, Event("Dissolution", calendar), tk.dissolutions)
       IN event_log' = L5
    /\ last' = [op |-> "tick", ok |-> TRUE,
                ids |-> tk.start[1].next_person_id..(next_person_id - 1),
                at |-> calls,
                result |-> [births |-> tk.births, deaths |-> tk.deaths,
                            marriages |-> tk.marriages,
                            pregnancies |-> tk.pregnancies,
                            dissolutions |-> tk.dissolutions,
                            population |-> Cardinality(DOMAIN persons)],
                steps |-> [Ran("log") EXCEPT !.pc = 0]]
    /\ tk' = NoTick
    /\ UNCHANGED <<pureVars, disk, sv, persons, calendar, next_person_id, next_entity,
                   json, file, calls, issued, runnerVars, logVars>>

NextTick ==
    \/ \E c \in SeedCounts, t \in Tiles : ~Ticking /\ Seed(c, t)
    \/ ~Ticking /\ TickMany(LongRun - 1)
    \/ TickAdvance
    \/ TickDeath
    \/ TickMatchmaking
    \/ TickDissolution
    \/ TickConception
    \/ TickDelivery
    \/ TickLog

SpecTick == InitLib /\ [][NextTick]_vars

\* ------------------------------------------------------------------------
\* Ticks pass by pass over populations at the age limits of marriage
\* ------------------------------------------------------------------------

\* (sex, age, tile) of the persons seeded one at a time: ages 15 and 16
\* around the marriage age, 31 and 32 at 15 and 16 years from 16, and one
\* woman on another tile.
MatchDraws ==
    {<<"Male", 16, 0>>, <<"Male", 15, 0>>, <<"Female", 15, 0>>,
     <<"Female", 31, 0>>, <<"Female", 32, 0>>, <<"Female", 16, 1>>}

\* seed_population_on_tile(1, tile_id) with the draw given.
SeedOne(d) ==
    /\ ~Ticking
    /\ calls < MaxCalls
    /\ calls' = calls + 1
    /\ next_entity + 1 <= MaxEntities + 1
    /\ next_person_id + 1 <= MaxPersonId + 1
    /\ LET S == SeedLoop([persons |-> persons,
                          next_person_id |-> next_person_id,
                          next_entity |-> next_entity],
                         << <<d[1], d[2]>> >>, d[3], calendar)
       IN /\ persons' = S.persons
          /\ next_person_id' = S.next_person_id
          /\ next_entity' = S.next_entity
          /\ issued' = IssuedAfter(next_person_id, S.next_person_id)
          /\ last' = [op |-> "seed", ok |-> TRUE,
                      ids |-> next_person_id..(S.next_person_id - 1),
                      at |-> calls + 1]
    /\ UNCHANGED <<calendar, event_log, json, file, runnerVars, logVars,
                   stepVars>>

NextMatch ==
    \/ \E d \in MatchDraws : SeedOne(d)
    \/ TickAdvance
    \/ TickDeath
    \/ TickMatchmaking
    \/ TickDissolution
    \/ TickConception
    \/ TickDelivery
    \/ TickLog

SpecMatch == InitLib /\ [][NextMatch]_vars

\* ------------------------------------------------------------------------
\* Ticks pass by pass over a world taken in by import_world
\* ------------------------------------------------------------------------

\* An ExportedPerson as a text handed to import_world can hold it.
Exported(id, sex, year, age, partner_id, fertility) ==
    [person_id |-> id, tile_id |-> 0,
     first_name |-> Name("Person", id), last_name |-> "",
     sex |-> sex,
     birth_year |-> year - age, birth_month |-> 1, birth_day |-> 1,
     partner_id |-> partner_id, mother_id |-> <<>>,
     fertility |-> fertility, pregnancy |-> <<>>]

\* Ages of the wife around the fertile window, and the fertility record a
\* person record carries or not.
WifeAges == {15, 16, 33, 34}
FertilityFields == {<<>>, <<DefaultFertility>>}

\* Fertility records of a wife who gave birth before: the last birth 18
\* months before the first month of the start year with the counter at its
\* maximum, and 17 months before it.
WifeFields ==
    FertilityFields \cup
       {<<[last_birth_year |-> StartYear - 2, last_birth_month |-> 7,
           children_born |-> 255]>>,
        <<[last_birth_year |-> StartYear - 2, last_birth_month |-> 8,
           children_born |-> 1]>>}

\* The calendar of the text: the first, the last but one and the last day
\* of a month of the start year, and a day in the last year a u16 holds.
TextDates ==
    {Date(StartYear, 1, 1), Date(StartYear, 1, 7), Date(StartYear, 1, 8),
     Date(YearModulus - 1, 4, 1)}

\* Lengths of the quiet runs between conception and term.
RunLengths == {64, 71}

\* The export data of a couple, a man of 30 and his wife: version 1, no
\* events.
CoupleData(cal, wife_age, his, hers) ==
    [version |-> 1,
     calendar |-> [year |-> cal.year, month |-> cal.month, day |-> cal.day],
     next_person_id |-> 3,
     people |-> <<Exported(1, "Male", cal.year, 30, <<2>>, his),
                  Exported(2, "Female", cal.year, wife_age, <<1>>, hers)>>,
     event_log |-> <<>>]

\* import_world(json) with a text the host brings, as its first call.
ImportText(data) ==
    /\ ~Ticking
    /\ calls = 0
    /\ LET R == ImportWorld(World, ToJson(data))
       IN /\ R.ok
          /\ Becomes(R.world)
          /\ last' = [op |-> "import", ok |-> TRUE, ids |-> {},
                      at |-> calls + 1, round_trip |-> FALSE]
    /\ calls' = calls + 1
    /\ UNCHANGED <<json, file, issued, runnerVars, logVars, stepVars>>

\* tick_many(n) called while every pregnancy under way is more than n ticks
\* from its term.
TickManyBeforeTerm(n) ==
    /\ ~Ticking
    /\ calls < MaxCalls
    /\ \E e \in DOMAIN persons : persons[e].preg # <<>>
    /\ \A s \in Sexes :
          QuietRun(World @@ [result |-> NoTicks], n, s).result.births = 0
    /\ TickMany(n)

\* pregnancy_system where Pregnant::new panics on due_year += 1 (a build
\* with overflow checks): the pass is left before its first insert, tick()
\* unwinds with the calendar advanced and the earlier passes done, nothing
\* is logged.
TickConceptionPanics ==
    /\ PassDue("conception")
    /\ Eligible(persons, calendar) # {}
    /\ PregnantNewOverflows(calendar)
    /\ tk' = NoTick
    /\ last' = [op |-> "tick", ok |-> FALSE, ids |-> {}, at |-> calls]
    /\ UNCHANGED <<pureVars, disk, sv, persons, calendar, next_person_id,
                   event_log, next_entity, json, file, calls, issued,
                   runnerVars, logVars>>

NextImported ==
    \/ \E d \in TextDates, a \in WifeAges,
          his \in FertilityFields, hers \in WifeFields :
          ImportText(CoupleData(d, a, his, hers))
    \/ \E n \in RunLengths : TickManyBeforeTerm(n)
    \/ TickAdvance
    \/ TickDeath
    \/ TickMatchmaking
    \/ TickDissolution
    \/ TickConception
    \/ TickConceptionPanics
    \/ TickDelivery
    \/ TickLog

SpecImported == InitLib /\ [][NextImported]_vars

\* ------------------------------------------------------------------------
\* Delivery in a world whose persons carry names
\* ------------------------------------------------------------------------

\* names.rs: the first names of males
MALE_FIRST_NAMES ==
    {"James", "John", "Robert", "Michael", "William", "David", "Richard",
     "Joseph", "Thomas", "Charles", "Christopher", "Daniel", "Matthew",
     "Anthony", "Mark", "Donald", "Steven", "Paul", "Andrew", "Joshua",
     "Kenneth", "Kevin", "Brian", "George", "Edward", "Ronald", "Timothy",
     "Jason", "Jeffrey", "Ryan", "Jacob", "Gary", "Nicholas", "Eric",
     "Stephen", "Jonathan", "Larry", "Justin", "Scott", "Brandon",
     "Benjamin", "Samuel", "Frank", "Gregory", "Raymond", "Alexander",
     "Patrick", "Jack", "Dennis", "Jerry", "Tyler", "Aaron", "Jose",
     "Adam", "Henry", "Nathan", "Douglas", "Zachary", "Peter", "Kyle",
     "Walter", "Ethan", "Jeremy", "Harold", "Keith", "Christian", "Roger",
     "Noah", "Gerald", "Carl"}

\* names.rs: the first names of females
FEMALE_FIRST_NAMES ==
    {"Mary", "Patricia", "Jennifer", "Linda", "Barbara", "Elizabeth",
     "Susan", "Jessica", "Sarah", "Karen", "Nancy", "Lisa", "Betty",
     "Margaret", "Sandra", "Ashley", "Dorothy", "Kimberly", "Emily",
     "Donna", "Michelle", "Carol", "Amanda", "Melissa", "Deborah",
     "Stephanie", "Rebecca", "Laura", "Sharon", "Cynthia", "Kathleen",
     "Amy", "Shirley", "Angela", "Helen", "Anna", "Brenda", "Pamela",
     "Nicole", "Emma", "Samantha", "Katherine", "Christine", "Debra",
     "Rachel", "Catherine", "Carolyn", "Janet", "Ruth", "Maria", "Heather",
     "Diane", "Virginia", "Julie", "Joyce", "Victoria", "Olivia", "Kelly",
     "Christina", "Lauren", "Joan", "Evelyn", "Judith", "Megan", "Cheryl",
     "Andrea"}

\* random_first_name(is_male): any name of the list of the sex.  A name is
\* the tuple of its parts, as in Name.
RandomFirstNames(is_male) ==
    {<<n>> : n \in IF is_male THEN MALE_FIRST_NAMES ELSE FEMALE_FIRST_NAMES}

\* The last name of the wife in the text: none, or one of LAST_NAMES.
WifeLastNames == {"", "Smith"}

\* The export data of a couple of the start date whose wife, aged 20, has
\* the given last name and is with child, due in the month of the text.
NamedCouple(last_name) ==
    [CoupleData(Date(StartYear, 1, 1), 20, <<>>, <<DefaultFertility>>)
        EXCEPT !.people[2].last_name = last_name,
               !.people[2].pregnancy =
                   <<[due_year |-> StartYear, due_month |-> 1]>>]

NextNamed ==
    \/ \E l \in WifeLastNames : ImportText(NamedCouple(l))
    \/ TickAdvance
    \/ TickDeath
    \/ TickMatchmaking
    \/ TickDissolution
    \/ TickConception
    \/ TickDelivery
    \/ TickLog

SpecNamed == InitLib /\ [][NextNamed]_vars

\* ------------------------------------------------------------------------
\* import_world over snapshots with missing and repeated ids
\* ------------------------------------------------------------------------

\* The date and the id counter of the snapshots.
SnapshotDate == Date(StartYear + 1, 2, 3)
SnapshotNextId == MaxPersonId

\* Person records with id 1 or 2, a partner reference to 1, 2, the absent 3
\* or none, and a mother reference to 1, the absent 3 or none.
SnapshotRecords ==
    {[Exported(id, sex, SnapshotDate.year, 20, p, <<>>)
         EXCEPT !.mother_id = m] :
        id \in {1, 2}, sex \in {"Female"},
        p \in {<<>>, <<1>>, <<2>>, <<3>>}, m \in {<<>>, <<1>>, <<3>>}}

\* Snapshots of one or two such records.
Snapshots ==
    {[version |-> 1,
      calendar |-> [year |-> SnapshotDate.year, month |-> SnapshotDate.month,
                    day |-> SnapshotDate.day],
      next_person_id |-> SnapshotNextId,
      people |-> people,
      event_log |-> <<>>] :
        people \in {<<a>> : a \in SnapshotRecords}
                      \cup {<<a, b>> : a, b \in SnapshotRecords}}

\* import_world(json) with the text of a snapshot, into a new or a seeded
\* world; the call record keeps the snapshot and the ImportResult.
ImportSnapshot(data) ==
    /\ calls < MaxCalls
    /\ last.op # "import_snapshot"
    /\ LET R == ImportWorld(World, ToJson(data))
       IN /\ R.ok
          /\ Becomes(R.world)
          /\ last' = [op |-> "import_snapshot", ok |-> TRUE, ids |-> {},
                      at |-> calls + 1, data |-> data, result |-> R.result,
                      before |-> DOMAIN persons]
    /\ calls' = calls + 1
    /\ UNCHANGED <<json, file, issued, runnerVars, logVars, stepVars>>

NextSnapshot ==
    \/ \E c \in SeedCounts, t \in Tiles : Seed(c, t)
    \/ \E data \in Snapshots : ImportSnapshot(data)

SpecSnapshot == InitLib /\ [][NextSnapshot]_vars

\* ------------------------------------------------------------------------
\* The calendar over many ticks
\* ------------------------------------------------------------------------

\* Ticks followed per run, and the dates a run starts from: that of a new
\* world, and one in the last year a u16 holds, as a restored snapshot or
\* enough ticks give it.
MaxDays == 130
CalendarStarts == {Date(StartYear, 1, 1), Date(YearModulus - 1, 11, 1)}

\* The run starts: from the new world as it is, or from a snapshot of it
\* with the calendar at c, imported.
CalendarStart(c) ==
    /\ cl.start = <<>>
    /\ persons = << >>
    /\ IF c = calendar
       THEN UNCHANGED <<persons, calendar, next_person_id, event_log,
                        next_entity>>
       ELSE Becomes(ImportFromExportData(
                       World, [BuildExportData(World) EXCEPT !.calendar = c]
                    ).world)
    /\ cl' = [start |-> <<c>>, ticks |-> 0, panicked |-> FALSE]
    /\ UNCHANGED <<json, file, calls, issued, last, disk, sv, tk, pg, tm,
                   runnerVars, logVars>>

\* tick() on the world of the run.
CalendarTick ==
    /\ cl.start # <<>>
    /\ ~cl.panicked
    /\ cl.ticks < MaxDays
    /\ \/ /\ Becomes(TickWith(World, {}, {}, {}, << >>))
          /\ cl' = [cl EXCEPT !.ticks = @ + 1]
       \/ /\ AdvanceOverflows(calendar)
          /\ calendar' = AdvancePanicked(calendar)
          /\ cl' = [cl EXCEPT !.panicked = TRUE]
          /\ UNCHANGED <<persons, next_person_id, event_log, next_entity>>
    /\ UNCHANGED <<json, file, calls, issued, last, disk, sv, tk, pg, tm,
                   runnerVars, logVars>>

NextCalendar ==
    \/ \E c \in CalendarStarts : CalendarStart(c)
    \/ CalendarTick

SpecCalendar == InitLib /\ [][NextCalendar]_vars

\* ------------------------------------------------------------------------
\* Pregnant::new and Pregnant::is_due over the dates
\* ------------------------------------------------------------------------

\* The dates a pregnancy is recorded at: two years running from the first,
\* and the last year a u16 holds.
RecordYears == {StartYear, StartYear + 1, YearModulus - 1}
RecordDates ==
    {Date(y, m, d) : y \in RecordYears, m \in 1..MONTHS_PER_YEAR,
                     d \in 1..DAYS_PER_MONTH}

\* Pregnant::new(&cal)
PregnancyRecord(cal) ==
    /\ pg.at = <<>>
    /\ \/ pg' = [at |-> <<cal>>, preg |-> <<PregnantNew(cal)>>,
                 panicked |-> FALSE]
       \/ /\ PregnantNewOverflows(cal)
          /\ pg' = [at |-> <<cal>>, preg |-> <<>>, panicked |-> TRUE]
    /\ UNCHANGED <<worldVars, disk, sv, tk, cl, tm, runnerVars, logVars>>

NextPregnancy == \E cal \in RecordDates : PregnancyRecord(cal)

SpecPregnancy == InitLib /\ [][NextPregnancy]_vars

\* ------------------------------------------------------------------------
\* Vital statistics
\* ------------------------------------------------------------------------

\* An f64 taken as the exact quotient n / d.  A zero d stands for the values
\* a division by zero leaves: an infinity when n is not zero, NaN when it is.
Rat(n, d) == [n |-> n, d |-> d]
Whole(k) == Rat(k, 1)
RatMul(a, b) == Rat(a.n * b.n, a.d * b.d)
RatDiv(a, b) == Rat(a.n * b.d, a.d * b.n)
RatSub(a, b) == Rat(a.n * b.d - b.n * a.d, a.d * b.d)
\* ==: false as soon as one side is NaN.
RatEq(a, b) ==
    /\ ~(a.n = 0 /\ a.d = 0) /\ ~(b.n = 0 /\ b.d = 0)
    /\ a.n * b.d = b.n * a.d
    /\ (a.d = 0) = (b.d = 0)

\* EventLog::count_by_type
CountByType(log, event_type, start_year, end_year) ==
    Cardinality({i \in 1..Len(log.events) :
                    /\ log.events[i].event_type = event_type
                    /\ log.events[i].year >= start_year
                    /\ log.events[i].year <= end_year})

\* SimulationWorld::entity_count
EntityCount(W) == Cardinality(DOMAIN W.persons)

\* end_year.saturating_sub(start_year) + 1, a u16
PeriodYears(start_year, end_year) ==
    (SatSub(end_year, start_year) + 1) % YearModulus
PeriodOverflows(start_year, end_year) ==
    SatSub(end_year, start_year) + 1 >= YearModulus

\* calculate_vital_statistics past the overflow check of the period.
VitalStatistics(W, start_year, end_year) ==
    LET births == CountByType(W.event_log, "Birth", start_year, end_year)
        deaths == CountByType(W.event_log, "Death", start_year, end_year)
        marriages ==
            CountByType(W.event_log, "Marriage", start_year, end_year)
        population == EntityCount(W)
        period_years == Whole(PeriodYears(start_year, end_year))
        pop_factor ==
            IF population > 0
            THEN RatDiv(Whole(1000), RatMul(Whole(population), period_years))
            ELSE Whole(0)
        birth_rate == RatMul(RatMul(Whole(births), pop_factor), period_years)
        death_rate == RatMul(RatMul(Whole(deaths), pop_factor), period_years)
        marriage_rate ==
            RatMul(RatMul(Whole(marriages), pop_factor), period_years)
    IN [birth_rate |-> birth_rate,
        death_rate |-> death_rate,
        marriage_rate |-> marriage_rate,
        natural_increase_rate |-> RatSub(birth_rate, death_rate),
        total_births |-> births,
        total_deaths |-> deaths,
        total_marriages |-> marriages,
        population |-> population,
        period_years |-> period_years]

\* The year ranges asked for: the first year, the year after it, both, a
\* range the wrong way round, and every year there is.
StatRanges ==
    {<<StartYear, StartYear>>, <<StartYear + 1, StartYear + 1>>,
     <<StartYear, StartYear + 1>>, <<StartYear + 1, StartYear>>,
     <<0, YearModulus - 1>>}

\* calculate_vital_statistics(start_year, end_year)
CalculateVitalStatistics(start_year, end_year) ==
    /\ \/ last' = [op |-> "stats", ok |-> TRUE, start_year |-> start_year,
                   end_year |-> end_year,
                   result |-> <<VitalStatistics(World, start_year, end_year)>>]
       \/ /\ PeriodOverflows(start_year, end_year)
          /\ last' = [op |-> "stats", ok |-> FALSE,
                      start_year |-> start_year, end_year |-> end_year,
                      result |-> <<>>]
    /\ UNCHANGED <<persons, calendar, next_person_id, event_log, next_entity,
                   json, file, calls, issued, runnerVars, logVars, stepVars>>

NextStats ==
    \/ \E c \in SeedCounts, t \in Tiles : Seed(c, t)
    \/ Tick
    \/ TickMany(LongRun)
    \/ \E r \in StatRanges : CalculateVitalStatistics(r[1], r[2])

SpecStats == InitLib /\ [][NextStats]_vars

\* ------------------------------------------------------------------------
\* The runner against the clock: test_calendar_runner
\* ------------------------------------------------------------------------

\* runner.start(world, 100, ...); thread::sleep(Duration::from_millis(550))
interval_ms == 100
run_ms == 550

\* thread::sleep returns after at least the duration; a spawned thread starts
\* some time after the spawn; a tick and its callback take time.  Each such
\* delay is a number of quarter intervals, as the scheduler pleases.
MaxLate == 3
Lags == {k * (interval_ms \div 4) : k \in 0..MaxLate}

\* thread::sleep(Duration::from_millis(interval_ms)) begun now, over by d.
SleepUntilNoWait(now, ms, d) == now + d
SleepUntil(now, ms, d) == now + ms + d

\* start(world, interval_ms, callback) by the test, which then sleeps run_ms:
\* the flag is set, the thread spawned (running after d0), the test asleep.
TimedStart(d0, dm) ==
    /\ ~tm.on
    /\ persons = << >>
    /\ tm' = [tm EXCEPT !.on = TRUE, !.running = TRUE,
                        !.loop = "sleeping", !.loop_wake = tm.now + d0,
                        !.main = "sleeping",
                        !.main_wake = SleepUntil(tm.now, run_ms, dm),
                        !.lag = d0, !.late = dm]
    /\ UNCHANGED <<worldVars, disk, sv, tk, cl, pg, runnerVars, logVars>>

\* The wake-up times of the threads that are asleep.
Wakes ==
    (IF tm.loop = "sleeping" THEN {tm.loop_wake} ELSE {})
       \cup (IF tm.main = "sleeping" THEN {tm.main_wake} ELSE {})

\* Time passes up to the next wake-up when every thread is asleep or waiting.
TimePasses ==
    /\ tm.on
    /\ tm.loop \in {"sleeping", "done"}
    /\ Wakes # {}
    /\ \A w \in Wakes : w > tm.now
    /\ tm' = [tm EXCEPT !.now = CHOOSE w \in Wakes : \A v \in Wakes : w <= v]
    /\ UNCHANGED <<worldVars, disk, sv, tk, cl, pg, runnerVars, logVars>>

\* The loop thread starts, or its sleep is over.
LoopWakes ==
    /\ tm.loop = "sleeping"
    /\ tm.loop_wake <= tm.now
    /\ tm' = [tm EXCEPT !.loop = "check"]
    /\ UNCHANGED <<worldVars, disk, sv, tk, cl, pg, runnerVars, logVars>>

\* while running.load(Ordering::Relaxed)
LoopChecks ==
    /\ tm.loop = "check"
    /\ tm' = [tm EXCEPT !.loop = IF tm.running THEN "tick" ELSE "done"]
    /\ UNCHANGED <<worldVars, disk, sv, tk, cl, pg, runnerVars, logVars>>

\* let tick_result = { let mut w = world.lock().unwrap(); w.tick() };
LoopTicks ==
    /\ tm.loop = "tick"
    /\ Becomes(TickWith(World, {}, {}, {}, << >>))
    /\ tm' = [tm EXCEPT !.loop = "callback",
                        !.ticked_at = Append(@, tm.now)]
    /\ UNCHANGED <<json, file, calls, issued, last, disk, sv, tk, cl, pg,
                   runnerVars, logVars>>

\* callback(tick_result): tick_count.fetch_add(1), then thread::sleep.
LoopCallsBack(d) ==
    /\ tm.loop = "callback"
    /\ tm' = [tm EXCEPT !.tick_count = @ + 1,
                        !.loop = "sleeping",
                        !.loop_wake = SleepUntil(tm.now, interval_ms, d),
                        !.sleeps = @ + 1,
                        !.lag = Max(@, d)]
    /\ UNCHANGED <<worldVars, disk, sv, tk, cl, pg, runnerVars, logVars>>

\* runner.stop() once the test's sleep is over: the flag is cleared.
MainStops ==
    /\ tm.main = "sleeping"
    /\ tm.main_wake <= tm.now
    /\ tm' = [tm EXCEPT !.running = FALSE, !.main = "joining"]
    /\ UNCHANGED <<worldVars, disk, sv, tk, cl, pg, runnerVars, logVars>>

\* handle.join() returns when the loop thread has ended.
MainJoins ==
    /\ tm.main = "joining"
    /\ tm.loop = "done"
    /\ tm' = [tm EXCEPT !.main = "returned"]
    /\ UNCHANGED <<worldVars, disk, sv, tk, cl, pg, runnerVars, logVars>>

NextTimed ==
    \/ \E d0 \in Lags, dm \in Lags : TimedStart(d0, dm)
    \/ TimePasses
    \/ LoopWakes
    \/ LoopChecks
    \/ LoopTicks
    \/ \E d \in Lags : LoopCallsBack(d)
    \/ MainStops
    \/ MainJoins

SpecTimed == InitLib /\ [][NextTimed]_vars

\* ------------------------------------------------------------------------
\* The desktop commands that take the world lock before the runner slot:
\* get_calendar_state and save_world (src-tauri commands)
\* ------------------------------------------------------------------------

\* get_calendar_state: let w = state.world.lock().unwrap();
GetCalendarStateLock(h) ==
    /\ binding = "tauri"
    /\ hpc[h] = "idle"
    /\ ops < MaxOps
    /\ CanLockWorld(HostActor(h))
    /\ ops' = ops + 1
    /\ world_lock' = HostActor(h)
    /\ hpc' = [hpc EXCEPT ![h] = "gc_slot"]
    /\ UNCHANGED <<binding, is_running, thread_handle, robj, next_runner,
                   next_thread, tpc, targs, slot, slot_lock, stage, hrun,
                   hjoin, last_op, last_access, stop_returned, late_ticks,
                   logVars, worldVars, stepVars>>

\* let runner = state.calendar_runner.lock().unwrap(), the world still held.
GetCalendarStateSlot(h) ==
    /\ hpc[h] = "gc_slot"
    /\ slot_lock = Free
    /\ slot_lock' = HostActor(h)
    /\ hpc' = [hpc EXCEPT ![h] = "gc_read"]
    /\ UNCHANGED <<binding, is_running, thread_handle, robj, next_runner,
                   next_thread, tpc, targs, slot, world_lock, stage, hrun,
                   hjoin, ops, last_op, last_access, stop_returned,
                   late_ticks, logVars, worldVars, stepVars>>

\* is_running() and the date are read, the state returned, both guards
\* dropped.
GetCalendarStateRead(h) ==
    /\ hpc[h] = "gc_read"
    /\ last_access' = HostActor(h)
    /\ world_lock' = Free
    /\ slot_lock' = Free
    /\ hpc' = [hpc EXCEPT ![h] = "idle"]
    /\ UNCHANGED <<binding, is_running, thread_handle, robj, next_runner,
                   next_thread, tpc, targs, slot, stage, hrun, hjoin, ops,
                   last_op, stop_returned, late_ticks,
                   logVars, worldVars, stepVars>>

\* save_world: the seed is read, then let w = state.world.lock().unwrap();
SaveWorldLock(h) ==
    /\ binding = "tauri"
    /\ hpc[h] = "idle"
    /\ ops < MaxOps
    /\ CanLockWorld(HostActor(h))
    /\ ops' = ops + 1
    /\ world_lock' = HostActor(h)
    /\ hpc' = [hpc EXCEPT ![h] = "sw_slot"]
    /\ UNCHANGED <<binding, is_running, thread_handle, robj, next_runner,
                   next_thread, tpc, targs, slot, slot_lock, stage, hrun,
                   hjoin, last_op, last_access, stop_returned, late_ticks,
                   logVars, worldVars, stepVars>>

\* "Stop calendar before saving": lock the slot, take the runner out and
\* stop it, the world still held.  With no runner in the slot the block is
\* left at once and the slot's guard dropped.
SaveWorldSlot(h) ==
    /\ hpc[h] = "sw_slot"
    /\ slot_lock = Free
    /\ slot' = NoRunner
    /\ IF slot = NoRunner
       THEN /\ hpc' = [hpc EXCEPT ![h] = "sw_save"]
            /\ UNCHANGED <<is_running, thread_handle, hjoin, hrun, last_op,
                           robj, slot_lock, logVars, worldVars, stepVars>>
       ELSE /\ StopFirst(h, slot, "sw_join", "sw_save")
            /\ slot_lock' = IF is_running[slot] /\ thread_handle[slot] # NoThread
                            THEN HostActor(h) ELSE Free
            /\ hrun' = [hrun EXCEPT ![h] = slot]
            /\ robj' = [robj EXCEPT
                          ![slot] = IF is_running[slot]
                                       /\ thread_handle[slot] # NoThread
                                    THEN "dropping" ELSE "dropped"]
    /\ UNCHANGED <<binding, next_runner, next_thread, tpc, targs, world_lock,
                   stage, ops, last_access, stop_returned, late_ticks,
                   logVars, worldVars, stepVars>>

\* The join inside r.stop(); then the runner and the slot's guard are
\* dropped.
SaveWorldJoin(h) ==
    /\ hpc[h] = "sw_join"
    /\ JoinReady(hjoin[h])
    /\ stop_returned' = [stop_returned EXCEPT ![hjoin[h]] = TRUE]
    /\ robj' = [robj EXCEPT ![hrun[h]] = "dropped"]
    /\ slot_lock' = Free
    /\ hpc' = [hpc EXCEPT ![h] = "sw_save"]
    /\ hjoin' = [hjoin EXCEPT ![h] = NoThread]
    /\ UNCHANGED <<binding, is_running, thread_handle, next_runner,
                   next_thread, tpc, targs, slot, world_lock, stage, hrun,
                   ops, last_op, last_access, late_ticks,
                   logVars, worldVars, stepVars>>

\* w.save_to_file(&config_json, seed, &file_path); the command returns and
\* the world's guard is dropped.
SaveWorldSave(h, seed, node_state_json) ==
    /\ hpc[h] = "sw_save"
    /\ file' = <<SaveFileOf(World, seed, node_state_json)>>
    /\ last' = [op |-> "save", ok |-> TRUE, ids |-> {}, at |-> calls,
                saved |-> Census(World), seed |-> seed,
                node_state_json |-> node_state_json]
    /\ last_access' = HostActor(h)
    /\ world_lock' = Free
    /\ hpc' = [hpc EXCEPT ![h] = "idle"]
    /\ UNCHANGED <<binding, is_running, thread_handle, robj, next_runner,
                   next_thread, tpc, targs, slot, slot_lock, stage, hrun,
                   hjoin, ops, last_op, stop_returned, late_ticks,
                   persons, calendar, next_person_id, event_log, next_entity,
                   json, calls, issued, logVars, stepVars>>

NextTauri ==
    \/ \E t \in Threads : ThreadStep(t)
    \/ \E h \in Hosts, a \in StartArgs : HostStartCalendar(h, a[1])
    \/ \E h \in Hosts : HostStartStore(h)
    \/ \E h \in Hosts : HostStopCalendar(h)
    \/ \E h \in Hosts : HostSlotJoin(h)
    \/ \E h \in Hosts : HostReturnLock(h)
    \/ \E h \in Hosts : HostReturnRead(h)
    \/ \E h \in Hosts : GetCalendarStateLock(h)
    \/ \E h \in Hosts : GetCalendarStateSlot(h)
    \/ \E h \in Hosts : GetCalendarStateRead(h)
    \/ \E h \in Hosts : SaveWorldLock(h)
    \/ \E h \in Hosts : SaveWorldSlot(h)
    \/ \E h \in Hosts : SaveWorldJoin(h)
    \/ \E h \in Hosts, sd \in SaveSeeds, ns \in NodeStates :
          SaveWorldSave(h, sd, ns)

InitTauri ==
    /\ InitRunner("tauri") /\ InitLog(DefaultLogCapacity) /\ InitWorld
    /\ InitSteps

SpecTauri == InitTauri /\ [][NextTauri]_vars

\* ------------------------------------------------------------------------
\* The world shared by the Runner's loop and the host's commands
\* ------------------------------------------------------------------------

\* How many ticks a host asks for in one request.
TickCounts == {1, 2}

\* A tick of the shared world: D the persons whose death draw succeeds, the
\* shuffles leave the lists in query order, no conception draw succeeds.
SharedTick(W, D) ==
    TickWith(W, D,
             UnshuffledMatch(DeathPass(W.persons, D), Advance(W.calendar)),
             {}, [e \in DOMAIN W.persons |-> "Female"])

\* Mutant: totals that keep the counts of the latest tick only.
AddCountsLatest(total, r) == r

\* total_births += r.births; ... for the five counts of a tick.
AddCounts(total, r) ==
    [births |-> total.births + r.births,
     deaths |-> total.deaths + r.deaths,
     marriages |-> total.marriages + r.marriages,
     pregnancies |-> total.pregnancies + r.pregnancies,
     dissolutions |-> total.dissolutions + r.dissolutions,
     population |-> r.population]

\* The locals of a request for n ticks made in world W: the ticks left, the
\* running totals, and the result of every tick made so far.
ManyTicks(n, W) ==
    [pc |-> 0, left |-> n, asked |-> n, start |-> <<W>>, total |-> NoTicks,
     results |-> <<>>]

\* seed_population_on_tile(world, count, tile): world.lock().unwrap().seed..
SharedSeed(h) ==
    /\ hpc[h] = "idle"
    /\ MayCall(h)
    /\ CanLockWorld(HostActor(h))
    /\ persons = << >>
    /\ Seed(2, 0)

\* tick_many(world, count) / tick(state, count):
\* let mut w = world.lock().unwrap(); the totals start at 0.
SharedTicksLock(h, n) ==
    /\ hpc[h] = "idle"
    /\ MayCall(h)
    /\ ops < MaxOps
    /\ calls + n <= MaxCalls
    /\ CanLockWorld(HostActor(h))
    /\ world_lock' = HostActor(h)
    /\ hpc' = [hpc EXCEPT ![h] = "tm_tick"]
    /\ ops' = ops + 1
    /\ tk' = ManyTicks(n, World)
    /\ UNCHANGED <<binding, is_running, thread_handle, robj, next_runner,
                   next_thread, tpc, targs, slot, slot_lock, stage, hrun,
                   hjoin, last_op, last_access, stop_returned, late_ticks,
                   logVars, worldVars, disk, sv, pureVars>>

\* for _ in 0..count { let r = w.tick(); total_.. += r.. }
SharedTicksTick(h) ==
    /\ hpc[h] = "tm_tick"
    /\ tk.left > 0
    /\ \E D \in SUBSET DOMAIN persons :
          LET T == SharedTick(World, D)
          IN /\ Becomes(T)
             /\ issued' = IssuedAfter(next_person_id, T.next_person_id)
             /\ tk' = [tk EXCEPT !.left = @ - 1,
                                 !.total = AddCounts(@, T.result),
                                 !.results = Append(@, T.result)]
    /\ calls' = calls + 1
    /\ last_access' = HostActor(h)
    /\ UNCHANGED <<binding, is_running, thread_handle, robj, next_runner,
                   next_thread, tpc, targs, slot, slot_lock, world_lock,
                   stage, hpc, hrun, hjoin, ops, last_op, stop_returned,
                   late_ticks, json, file, last,
                   logVars, disk, sv, pureVars>>

\* The loop is over: the totals, w.entity_count() and (tauri) the calendar
\* are returned and the guard is dropped.
SharedTicksReturn(h) ==
    /\ hpc[h] = "tm_tick"
    /\ tk.left = 0
    /\ last' = [op |-> "tick_many", ok |-> TRUE, ids |-> {}, at |-> calls,
                result |-> [tk.total EXCEPT
                              !.population = Cardinality(DOMAIN persons)],
                date |-> calendar, asked |-> tk.asked, start |-> tk.start,
                results |-> tk.results]
    /\ tk' = NoTick
    /\ world_lock' = Free
    /\ hpc' = [hpc EXCEPT ![h] = "idle"]
    /\ UNCHANGED <<binding, is_running, thread_handle, robj, next_runner,
                   next_thread, tpc, targs, slot, slot_lock, stage, hrun,
                   hjoin, ops, last_op, last_access, stop_returned,
                   late_ticks, persons, calendar, next_person_id, event_log,
                   next_entity, json, file, calls, issued,
                   logVars, disk, sv, pureVars>>

\* let tick_result = { let mut w = world.lock().unwrap(); w.tick() };
\* the tick of the loop on the shared world; its result is a local of the
\* loop (kept with what the closure captured), the guard is dropped.
LoopTick(t) ==
    /\ tpc[t] = "tick"
    /\ calls < MaxCalls
    /\ \E D \in SUBSET DOMAIN persons :
          LET T == SharedTick(World, D)
          IN /\ Becomes(T)
             /\ issued' = IssuedAfter(next_person_id, T.next_person_id)
             /\ targs' = [targs EXCEPT ![t] =
                            [runner |-> @.runner, interval |-> @.interval,
                             callback |-> @.callback,
                             tick_result |-> T.result,
                             ticked |-> T.calendar]]
    /\ calls' = calls + 1
    /\ last_access' = ThreadActor(t)
    /\ world_lock' = GuardAfterTick(t)
    /\ tpc' = [tpc EXCEPT ![t] = "callback"]
    /\ late_ticks' = [late_ticks EXCEPT ![t] =
                        IF is_running[targs[t].runner] THEN @ ELSE @ + 1]
    /\ UNCHANGED <<binding, is_running, thread_handle, robj, next_runner,
                   next_thread, slot, slot_lock, stage, hpc, hrun, hjoin,
                   ops, last_op, stop_returned, json, file, last,
                   logVars, stepVars>>

\* The callback, holding the world's lock again: it reads the calendar and
\* emits the event made of the counts it was given and of that date.
LoopEmit(t) ==
    /\ tpc[t] = "cb_read"
    /\ last' = [op |-> "calendar-tick", ok |-> TRUE, ids |-> {},
                at |-> calls,
                event |-> [births |-> targs[t].tick_result.births,
                           deaths |-> targs[t].tick_result.deaths,
                           marriages |-> targs[t].tick_result.marriages,
                           pregnancies |-> targs[t].tick_result.pregnancies,
                           dissolutions |->
                               targs[t].tick_result.dissolutions,
                           population |-> targs[t].tick_result.population,
                           year |-> calendar.year, month |-> calendar.month,
                           day |-> calendar.day],
                ticked |-> targs[t].ticked]
    /\ last_access' = ThreadActor(t)
    /\ world_lock' = Free
    /\ tpc' = [tpc EXCEPT ![t] = "sleep"]
    /\ UNCHANGED <<binding, is_running, thread_handle, robj, next_runner,
                   next_thread, targs, slot, slot_lock, stage, hpc, hrun,
                   hjoin, ops, last_op, stop_returned, late_ticks,
                   persons, calendar, next_person_id, event_log,
                   next_entity, json, file, calls, issued,
                   logVars, stepVars>>

\* One start_calendar is made; its loop and the host's requests then share
\* the world.
NextShared ==
    \/ \E h \in Hosts : next_runner = 1 /\ HostStartCalendar(h, 125)
    \/ \E h \in Hosts : HostStartStore(h)
    \/ \E h \in Hosts : HostReturnLock(h)
    \/ \E h \in Hosts : HostReturnRead(h)
    \/ \E h \in Hosts : HostReturnUnlock(h)
    \/ \E h \in Hosts : SharedSeed(h)
    \/ \E h \in Hosts, n \in TickCounts : SharedTicksLock(h, n)
    \/ \E h \in Hosts : SharedTicksTick(h)
    \/ \E h \in Hosts : SharedTicksReturn(h)
    \/ \E t \in Threads : ThreadCheck(t)
    \/ \E t \in Threads : ThreadLock(t)
    \/ \E t \in Threads : LoopTick(t)
    \/ \E t \in Threads : ThreadCallback(t)
    \/ \E t \in Threads : ThreadCbLock(t)
    \/ \E t \in Threads : LoopEmit(t)
    \/ \E t \in Threads : ThreadWake(t)

SpecShared == InitHost /\ [][NextShared]_vars

\* ------------------------------------------------------------------------
\* Properties of the world, its ids and its snapshots
\* ------------------------------------------------------------------------

\* The step is a call of the named host operation.
WorldCall(name) == calls' = calls + 1 /\ last'.op = name

\* What can be told of a person from outside: the fields, with the partner
\* and the mother named by person id when they live in the same world.
PersonView(P, e) ==
    [id |-> P[e].id, first_name |-> P[e].first_name,
     last_name |-> P[e].last_name, sex |-> P[e].sex, birth |-> P[e].birth,
     tile |-> P[e].tile,
     partner_id |-> IF P[e].partner \in DOMAIN P
                    THEN <<P[P[e].partner].id>> ELSE <<>>,
     mother_id |-> IF P[e].mother \in DOMAIN P
                   THEN <<P[P[e].mother].id>> ELSE <<>>,
     fert |-> P[e].fert, preg |-> P[e].preg]

WorldView(W) ==
    [population |-> Cardinality(DOMAIN W.persons), calendar |-> W.calendar,
     next_person_id |-> W.next_person_id,
     people |-> {PersonView(W.persons, e) : e \in DOMAIN W.persons}]

\* The same of a snapshot.
DataView(data) ==
    [population |-> Len(data.people),
     calendar |-> Date(data.calendar.year, data.calendar.month,
                       data.calendar.day),
     next_person_id |-> data.next_person_id,
     people |-> {[id |-> data.people[i].person_id,
                  first_name |-> data.people[i].first_name,
                  last_name |-> data.people[i].last_name,
                  sex |-> data.people[i].sex,
                  birth |-> Date(data.people[i].birth_year,
                                 data.people[i].birth_month,
                                 data.people[i].birth_day),
                  tile |-> data.people[i].tile_id,
                  partner_id |-> data.people[i].partner_id,
                  mother_id |-> data.people[i].mother_id,
                  fert |-> data.people[i].fertility,
                  preg |-> data.people[i].pregnancy] :
                 i \in 1..Len(data.people)}]

\* C3: importing the export of the current world succeeds and gives a world
\* with the same population count, calendar date and next person id, and for
\* every person id the same name, sex, birth date, location, partner id,
\* mother id, fertility and pregnancy, as in the snapshot and as before.
C3_ExportImportRoundTrip ==
    [][(WorldCall("import") /\ json[1] = ExportWorld(World))
          => /\ last'.ok
             /\ WorldView(World)' = DataView(json[1].doc)
             /\ WorldView(World)' = WorldView(World)]_vars

\* A round trip has just been made on a world with a couple, a child whose
\* mother lives, and a mother's fertility record.
C3_Witness ==
    /\ last.op = "import" /\ last.ok /\ last.round_trip
    /\ \E e \in DOMAIN persons : persons[e].partner # NoEntity
    /\ \E e \in DOMAIN persons : persons[e].mother # NoEntity
    /\ \E e \in DOMAIN persons :
          persons[e].fert # <<>> /\ persons[e].fert[1].children_born = 1

\* A text import_world must refuse, a file load_from_file must refuse.
BadText(t) == ~t.wellformed \/ t.doc.version # 1
BadFile(f) == ~f.decodable \/ f.doc.version # 1

\* C4: import_world of a text that does not parse or whose version is not 1,
\* and load_from_file of a file that does not decode or whose version is not
\* 1, return an error and leave persons, calendar, next person id and event
\* log as they were.
C4_RejectedImportChangesNothing ==
    [][/\ (WorldCall("import") /\ BadText(json[1]))
            => /\ ~last'.ok
               /\ UNCHANGED <<persons, calendar, next_person_id, event_log>>
       /\ (WorldCall("load") /\ file # NoFile /\ BadFile(file[1]))
            => /\ ~last'.ok
               /\ UNCHANGED <<persons, calendar, next_person_id, event_log>>
      ]_vars

\* An import of a version-2 text has just been refused, and the text
\* describes another world than the current one.
C4_Witness ==
    /\ last.op = "import" /\ ~last.ok
    /\ json[1].wellformed /\ json[1].doc.version = OtherVersion
    /\ DataView(json[1].doc) # WorldView(World)

\* C5: between ticks, whoever holds a partner link to B finds B alive, other
\* than themselves, and holding a partner link back.
C5_PartnerLinksSymmetric ==
    \A e \in DOMAIN persons :
        persons[e].partner # NoEntity
            => /\ persons[e].partner \in DOMAIN persons
               /\ persons[e].partner # e
               /\ persons[persons[e].partner].partner = e

\* A tick in which a spouse died and the survivor's link was cleared.
C5_Witness ==
    /\ last.op = "tick"
    /\ last.result.deaths >= 1 /\ last.result.dissolutions >= 1
    /\ DOMAIN persons # {}

BlobNotText(f) ==
    /\ f # NoFile /\ f[1].decodable /\ f[1].doc.version = 1
    /\ ~f[1].doc.node_state.utf8

\* C11: a load_from_file that follows a save_to_file succeeds and returns the
\* population, the number of partner links, the number of mother links and
\* the calendar year of the saved world, the seed and the node state text
\* passed to the save.
C11_SaveLoadRoundTrip ==
    [][(WorldCall("load") /\ last.op = "save")
          => /\ last'.ok
             /\ last'.result[1].import_result = last.saved
             /\ last'.result[1].seed = last.seed
             /\ last'.result[1].node_state_json = last.node_state_json]_vars

\* C14 (amended): a load of a file whose node state is not valid UTF-8
\* returns the encoding error before anything is restored: persons, calendar,
\* next person id and event log are those from before the call.
C14_BlobErrorLeavesWorld ==
    [][(WorldCall("load") /\ BlobNotText(file))
          => /\ ~last'.ok
             /\ last'.error = "Invalid UTF-8 in node_state"
             /\ UNCHANGED <<persons, calendar, next_person_id, event_log>>
      ]_vars

\* Such a load has just failed in a world that is not the one in the file.
C14_Witness ==
    /\ last.op = "load" /\ ~last.ok
    /\ last.error = "Invalid UTF-8 in node_state"
    /\ BlobNotText(file)
    /\ WorldView(World) # DataView(file[1].doc.ecs_data)

\* C14 as claimed: when the encoding error is returned, persons, calendar and
\* next person id are those of the save file.
C14_BlobErrorAfterRestore ==
    [][(WorldCall("load") /\ BlobNotText(file))
          => /\ ~last'.ok
             /\ WorldView(World)' = DataView(file[1].doc.ecs_data)]_vars

\* C13: importing the export of the current world leaves the event log with
\* the same events in the same oldest-to-newest order, and get_recent(n)
\* returns for every n what it returned before the export.
C13_EventLogOrderSurvives ==
    [][(WorldCall("import") /\ json[1] = ExportWorld(World))
          => /\ event_log'.events = event_log.events
             /\ \A n \in 0..Len(event_log.events) :
                   EventLogGetRecent(event_log', n)
                      = EventLogGetRecent(event_log, n)]_vars

\* C12: at every point of every save, whether it completes, fails or the
\* process dies, the target path holds nothing or a complete save, and a step
\* changes it only by the rename, to the complete new save.
C12_TargetNeverPartial ==
    /\ [](Complete(disk[SavePath]))
    /\ [][\/ disk'[SavePath] = disk[SavePath]
          \/ /\ sv.pc = "written"
             /\ disk'[SavePath] = <<FileOf(sv.encoded[1], MaxChunks)>>]_vars

\* A save died mid-write: the tmp path holds a partial file of another world
\* than the complete previous save at the target path.
C12_Witness ==
    /\ ~Saving /\ last.op = "crash"
    /\ disk[SavePath] # <<>>
    /\ disk[TmpPath(SavePath)] # <<>>
    /\ ~Complete(disk[TmpPath(SavePath)])
    /\ disk[TmpPath(SavePath)][1].bytes # disk[SavePath][1].bytes

\* The order of a tick: the calendar, then the five passes, then the log.
TickOrder ==
    <<"advance", "death", "matchmaking", "dissolution", "conception",
      "delivery", "log">>

\* C15: within every tick the calendar is advanced first and then Death,
\* Matchmaking, Dissolution, Conception and Delivery run once each in this
\* order, each on the state the one before it left: at every point the steps
\* run so far are the first steps of that order, and the world a tick ends
\* with and the counts it returns are those of the passes applied in that
\* order to the world it started from with the draws it made.
C15_PassesInFixedOrder ==
    /\ [](tk.done = SubSeq(TickOrder, 1, Len(tk.done)))
    /\ [][(Ticking /\ ~Ticking')
            => /\ last'.steps.done = TickOrder
               /\ LET T == TickWith(tk.start[1], tk.D, tk.M, tk.C, tk.sx)
                  IN /\ World' = [x \in DOMAIN World |-> T[x]]
                     /\ last'.result = T.result]_vars

\* A tick has ended in which a couple married and the wife conceived:
\* Conception has worked on the links Matchmaking left.
C15_Witness ==
    /\ ~Ticking /\ last.op = "tick"
    /\ "steps" \in DOMAIN last
    /\ last.result.marriages = 1 /\ last.result.pregnancies = 1
    /\ \E e \in DOMAIN persons : persons[e].preg # <<>>

\* C18: stop() on a runner that is not running, because it was never started
\* or because a stop() has completed, changes nothing, joins nothing and
\* returns at once; and after every stop() is_running() is false.
C18_StopIsIdempotent ==
    [][RunnerCall("stop") =>
          /\ ~is_running'[last_op'.runner]
          /\ ~last_op'.was_running =>
                /\ UNCHANGED <<is_running, thread_handle, tpc, targs,
                               next_thread, hjoin, hpc, world_lock,
                               stop_returned, late_ticks>>
                /\ \A h \in Hosts : hpc'[h] # "join"]_vars

\* stop() has just been called on a runner whose loop an earlier stop() had
\* joined.
C18_Witness ==
    /\ last_op.name = "stop"
    /\ ~last_op.was_running
    /\ \E t \in ThreadsOf(last_op.runner) : stop_returned[t]

\* Days from year 0, month 1, day 1 to a date.
DayNumber(cal) ==
    (cal.year * MONTHS_PER_YEAR + (cal.month - 1)) * DAYS_PER_MONTH
       + (cal.day - 1)

\* C16: after N ticks the calendar is exactly N days after the date it
\* started from, under 8-day months and 12-month years; 120 ticks from year
\* 4000, month 1, day 1 give year 4001, month 4, day 1; after every tick the
\* day is in 1..8 and the month in 1..12.
C16_TicksAdvanceDays ==
    cl.start # <<>> =>
       /\ ~cl.panicked
       /\ DayNumber(calendar) = DayNumber(cl.start[1]) + cl.ticks
       /\ calendar.day \in 1..8
       /\ calendar.month \in 1..12
       /\ (cl.start[1] = Date(4000, 1, 1) /\ cl.ticks = 120)
             => calendar = Date(4001, 4, 1)

\* C17: a pregnancy recorded in year y, month m, on any day, is due in
\* (y, m + 9) when m + 9 is at most 12 and in (y + 1, m + 9 - 12) otherwise,
\* with the due month in 1..12; one recorded in year 4000, month 6 is not due
\* on 4001-02-08 and is due on 4001-03-01.
C17_DueNineMonthsOn ==
    pg.at # <<>> =>
       /\ ~pg.panicked
       /\ LET c == pg.at[1]
              p == pg.preg[1]
          IN /\ p = IF c.month + 9 <= 12
                    THEN [due_year |-> c.year, due_month |-> c.month + 9]
                    ELSE [due_year |-> c.year + 1,
                          due_month |-> c.month + 9 - 12]
             /\ p.due_month \in 1..12
             /\ (c.year = 4000 /\ c.month = 6)
                   => /\ ~IsDue(p, Date(4001, 2, 8))
                      /\ IsDue(p, Date(4001, 3, 1))

\* The logged events of a type with a year in the range last asked for.
Logged(type) ==
    Cardinality({i \in 1..Len(event_log.events) :
                    /\ event_log.events[i].event_type = type
                    /\ event_log.events[i].year \in
                           last.start_year..last.end_year})

\* A count per thousand of the current population.
PerThousand(count) ==
    IF Cardinality(DOMAIN persons) > 0
    THEN Rat(count * 1000, Cardinality(DOMAIN persons))
    ELSE Whole(0)

\* C19: calculate_vital_statistics(start_year, end_year) returns, for births,
\* deaths and marriages, the number of logged events of that type with a
\* year in start_year..end_year times 1000 over the current population,
\* whatever the length of the range; every rate is 0 when the population is
\* 0; the natural-increase rate is the birth rate minus the death rate.
C19_RatesPerThousand ==
    last.op = "stats" =>
       /\ last.ok
       /\ LET v == last.result[1]
          IN /\ RatEq(v.birth_rate, PerThousand(Logged("Birth")))
             /\ RatEq(v.death_rate, PerThousand(Logged("Death")))
             /\ RatEq(v.marriage_rate, PerThousand(Logged("Marriage")))
             /\ RatEq(v.natural_increase_rate,
                      RatSub(v.birth_rate, v.death_rate))

\* The loop ticks before it first sleeps and once per sleep after that, no
\* two ticks less than the interval apart, and calls back once per tick.
Paced ==
    /\ \A i \in 1..(Len(tm.ticked_at) - 1) :
          tm.ticked_at[i + 1] - tm.ticked_at[i] >= interval_ms
    /\ tm.sleeps = tm.tick_count
    /\ Len(tm.ticked_at) =
          IF tm.loop = "callback" THEN tm.tick_count + 1 ELSE tm.tick_count
    /\ (tm.loop = "sleeping" /\ tm.ticked_at = <<>>) => tm.sleeps = 0
    /\ calendar = Date(StartYear, 1, 1 + Len(tm.ticked_at))

ThreadWaitsForWorld(t) ==
    /\ tpc[t] \in {"lock", "cb_lock"}
    /\ world_lock # Free

\* C21: save_world called while the Runner is running always completes: no
\* state is reachable in which save_world, holding the world lock, waits in
\* join for the Runner thread while that thread waits for the world lock.
C21_SaveWorldNeverJoinsBlockedThread ==
    \A h \in Hosts :
        ~(/\ hpc[h] = "sw_join"
          /\ world_lock = HostActor(h)
          /\ ThreadWaitsForWorld(hjoin[h]))

\* A host holds the slot's guard without being able to go on: it waits for
\* the world lock, or waits in join for a thread that waits for the world
\* lock.
SlotHolderWaitsForWorld(s) ==
    /\ slot_lock = HostActor(s)
    /\ \/ hpc[s] = "ret_world" /\ world_lock # Free
       \/ hpc[s] \in {"slot_join", "sw_join"} /\ ThreadWaitsForWorld(hjoin[s])

\* C22: the calendar commands never deadlock on the world lock and the
\* runner-handle lock: no state is reachable in which get_calendar_state,
\* holding the world lock, waits for the runner-handle lock while
\* start_calendar or stop_calendar, holding the runner-handle lock, waits
\* for the world lock or for a Runner thread that waits for it.
C22_CalendarCommandsNeverDeadlock ==
    \A g \in Hosts, s \in Hosts :
        ~(/\ hpc[g] = "gc_slot"
          /\ world_lock = HostActor(g)
          /\ hpc[s] \in {"ret_world", "slot_join"}
          /\ SlotHolderWaitsForWorld(s))

\* The order of the positions of the loop: the flag test, the lock, the
\* tick, the callback (which may lock and read the world), the sleep.
LoopOrder ==
    {<<"unborn", "check">>, <<"check", "lock">>, <<"check", "done">>,
     <<"lock", "tick">>, <<"tick", "callback">>, <<"callback", "cb_lock">>,
     <<"callback", "sleep">>, <<"cb_lock", "cb_read">>,
     <<"cb_read", "sleep">>, <<"sleep", "check">>}

\* C23: in every iteration of the loop the world lock is taken, one tick
\* run and the lock released before the callback is invoked; the callback
\* returns before the sleep and before the next tick, so ticks and callbacks
\* alternate; and a callback that locks the world never finds the mutex held
\* by its own loop.
C23_TickUnlockCallbackSleep ==
    /\ [](\A t \in Threads :
             tpc[t] \in {"callback", "cb_lock", "sleep"}
                => world_lock # ThreadActor(t))
    /\ [](\A t \in Threads : tpc[t] = "tick" => world_lock = ThreadActor(t))
    /\ [][\A t \in Threads :
             tpc'[t] # tpc[t] =>
                /\ <<tpc[t], tpc'[t]>> \in LoopOrder
                /\ tpc'[t] = "callback" => stage = NumPasses /\ stage' = 0
         ]_vars

\* C23 witness: the callback of a tick has locked the world itself, after
\* its loop released it, and the flag is still set.
C23_Witness ==
    \E t \in Threads :
        /\ tpc[t] = "cb_read"
        /\ world_lock = ThreadActor(t)
        /\ is_running[targs[t].runner]

\* The two ages of a couple differ by at most n years.
AgesWithin(P, cal, c, n) ==
    LET a == AgeYears(P[c[1]].birth, cal)
        b == AgeYears(P[c[2]].birth, cal)
    IN a - b <= n /\ b - a <= n

\* C24: every marriage a Matchmaking pass forms joins a man and a woman who
\* at the start of the pass both held no partner link, were both aged at
\* least 16, lived on the same tile and differ in age by at most 15 years;
\* nobody is part of two marriages of one pass; and the pass changes the
\* partner links of the couples only, linking each to the other.
C24_MarriagesJoinEligibleSingles ==
    [][(PassDue("matchmaking") /\ tk'.pc = tk.pc + 1) =>
          /\ \A c \in tk'.M :
                /\ c[1] \in DOMAIN persons /\ c[2] \in DOMAIN persons
                /\ persons[c[1]].sex = "Male" /\ persons[c[2]].sex = "Female"
                /\ persons[c[1]].partner = NoEntity
                /\ persons[c[2]].partner = NoEntity
                /\ AgeYears(persons[c[1]].birth, calendar) >= 16
                /\ AgeYears(persons[c[2]].birth, calendar) >= 16
                /\ persons[c[1]].tile = persons[c[2]].tile
                /\ AgesWithin(persons, calendar, c, 15)
                /\ persons'[c[1]].partner = c[2]
                /\ persons'[c[2]].partner = c[1]
          /\ \A c, d \in tk'.M :
                c # d => {c[1], c[2]} \cap {d[1], d[2]} = {}
          /\ DOMAIN persons' = DOMAIN persons
          /\ \A e \in DOMAIN persons :
                persons'[e].partner # persons[e].partner
                   => \E c \in tk'.M : e \in {c[1], c[2]}
          /\ tk'.marriages = Cardinality(tk'.M)
      ]_vars

\* C24 witness: a pass has married a man of 16 to a woman of 31 while a
\* woman of 15 on their tile stayed single.
C24_Witness ==
    /\ Ticking /\ tk.pc = 3
    /\ \E c \in tk.M :
          /\ AgeYears(persons[c[1]].birth, calendar) = 16
          /\ AgeYears(persons[c[2]].birth, calendar) = 31
          /\ \E e \in DOMAIN persons :
                /\ persons[e].sex = "Female"
                /\ AgeYears(persons[e].birth, calendar) = 15
                /\ persons[e].tile = persons[c[1]].tile
                /\ persons[e].partner = NoEntity

\* The partner link of a person names an entity that is gone.
Dangling(P, e) == P[e].partner # NoEntity /\ P[e].partner \notin DOMAIN P

\* C25: the Dissolution pass removes the partner link of exactly the persons
\* whose partner entity no longer exists, changes nothing else, and returns
\* the number of links removed; between ticks no partner link names a
\* destroyed entity.
C25_DissolutionClearsDanglingLinks ==
    /\ [][(PassDue("dissolution") /\ tk'.pc = tk.pc + 1) =>
             /\ DOMAIN persons' = DOMAIN persons
             /\ \A e \in DOMAIN persons :
                   persons'[e] =
                      IF Dangling(persons, e)
                      THEN [persons[e] EXCEPT !.partner = NoEntity]
                      ELSE persons[e]
             /\ tk'.dissolutions =
                   Cardinality({e \in DOMAIN persons : Dangling(persons, e)})
         ]_vars
    /\ [](~Ticking => \A e \in DOMAIN persons : ~Dangling(persons, e))

\* C25 witness: a Dissolution pass has just removed the link of a person
\* whose partner died in this tick, next to a person it left as it was.
C25_Witness ==
    /\ Ticking /\ tk.pc = 4
    /\ tk.dissolutions = 1
    /\ \E e \in DOMAIN persons :
          /\ persons[e].partner = NoEntity
          /\ tk.start[1].persons[e].partner \in tk.D
    /\ Cardinality(DOMAIN persons) >= 2

\* The persons alive whose partner at the start of the tick died in its
\* death pass.
Bereaved ==
    IF Ticking
    THEN {e \in DOMAIN persons \cap DOMAIN tk.start[1].persons :
             tk.start[1].persons[e].partner \in tk.D}
    ELSE {}

\* C26: a person whose partner dies in a tick is no matchmaking candidate of
\* that tick: the link to the dead partner is still there during the
\* matchmaking pass and is cleared by the dissolution pass after it, so the
\* person is in no couple of the tick and ends it without partner.
C26_BereavedWaitATick ==
    \A e \in Bereaved :
        /\ \A c \in tk.M : e \notin {c[1], c[2]}
        /\ persons[e].partner =
              IF tk.pc <= 3 THEN tk.start[1].persons[e].partner ELSE NoEntity
        /\ tk.pc = 2 =>
              \A t \in Tiles :
                 e \notin Singles(persons, calendar, persons[e].sex, t)

\* C26 witness: the matchmaking pass has run just after a wife died, and her
\* husband stays unmarried though a single woman he could marry lives on his
\* tile.
C26_Witness ==
    /\ Ticking /\ tk.pc = 3
    /\ \E e \in Bereaved, w \in DOMAIN persons :
          /\ persons[e].sex = "Male"
          /\ w \in Singles(persons, calendar, "Female", persons[e].tile)
          /\ Compatible(persons, calendar, e, w)

\* C27: the conception pass attaches a pregnancy record only to a woman who
\* holds a partner link and no pregnancy record, is aged 16 to 33 and passes
\* the birth-interval check of her fertility record; no man ever holds a
\* pregnancy record.
C27_OnlyEligibleWomenConceive ==
    /\ [][(PassDue("conception") /\ tk'.pc = tk.pc + 1) =>
             /\ \A e \in tk'.C :
                   /\ e \in DOMAIN persons
                   /\ persons[e].sex = "Female"
                   /\ persons[e].partner # NoEntity
                   /\ persons[e].preg = <<>>
                   /\ AgeYears(persons[e].birth, calendar) \in 16..33
                   /\ persons[e].fert # <<>>
                   /\ CanGiveBirth(persons[e].fert[1], calendar)
                   /\ persons'[e].preg = <<PregnantNew(calendar)>>
             /\ \A e \in DOMAIN persons \ tk'.C : persons'[e] = persons[e]
             /\ DOMAIN persons' = DOMAIN persons
             /\ tk'.pregnancies = Cardinality(tk'.C)
         ]_vars
    /\ [](\A e \in DOMAIN persons :
             /\ persons[e].sex = "Male" => persons[e].preg = <<>>
             /\ Len(persons[e].preg) <= 1)

\* A conception pass has just made a married woman pregnant.
C27_WomanConceives ==
    /\ Ticking /\ tk.pc = 5
    /\ \E e \in tk.C :
          /\ persons[e].sex = "Female"
          /\ persons[e].partner # NoEntity
          /\ persons[e].preg # <<>>

\* The delivery pass of a tick takes exactly the pregnancies whose due month
\* the calendar has reached; for each it is day 1 of the due month, the
\* pregnancy was not started in this tick, and a pregnancy was logged as
\* started 65 to 72 ticks earlier.
DeliveredOnTerm ==
    (PassDue("delivery") /\ tk'.pc = tk.pc + 1) =>
       \A e \in DOMAIN persons :
          persons[e].preg # <<>> =>
             LET due == persons[e].preg[1]
             IN /\ persons'[e].preg = <<>> <=> IsDue(due, calendar)
                /\ persons'[e].preg = <<>> =>
                      /\ calendar.day = 1
                      /\ calendar.year = due.due_year
                      /\ calendar.month = due.due_month
                      /\ e \notin tk.C
                      /\ \E i \in 1..Len(event_log.events) :
                            LET ev == event_log.events[i]
                            IN /\ ev.event_type = "PregnancyStarted"
                               /\ DayNumber(calendar) - DayNumber(ev)
                                     \in 65..72

\* Between ticks no pregnancy record is at or past its due month.
NoneOverdue ==
    ~Ticking =>
       \A e \in DOMAIN persons :
          persons[e].preg # <<>> => ~IsDue(persons[e].preg[1], calendar)

\* C28: a pregnancy is delivered in the first tick whose year and month have
\* reached its due year and month, which under daily ticks is day 1 of the
\* due month and never the tick of the conception; the delivery comes 65 to
\* 72 ticks after the conception, and no pregnancy record outlives its due
\* month.
C28_DeliveredOnDayOneOfDueMonth ==
    [][DeliveredOnTerm]_vars /\ []NoneOverdue

\* The same while the calendar is before the last year a u16 holds.
C28_BeforeLastYear ==
    [][calendar.year < YearModulus - 1 => DeliveredOnTerm]_vars /\ []NoneOverdue

\* A delivery pass has just delivered a child conceived 65 ticks earlier,
\* or one conceived 72 ticks earlier.
C28_EarlyTerm ==
    /\ Ticking /\ tk.pc = 6 /\ tk.births = 1
    /\ \E i \in 1..Len(event_log.events) :
          /\ event_log.events[i].event_type = "PregnancyStarted"
          /\ DayNumber(calendar) - DayNumber(event_log.events[i]) = 65
C28_LateTerm ==
    /\ Ticking /\ tk.pc = 6 /\ tk.births = 1
    /\ \E i \in 1..Len(event_log.events) :
          /\ event_log.events[i].event_type = "PregnancyStarted"
          /\ DayNumber(calendar) - DayNumber(event_log.events[i]) = 72

\* The children a delivery pass has created.
Newborn == DOMAIN persons' \ DOMAIN persons

\* C29: each delivery removes the mother's pregnancy record, sets her
\* fertility record's last birth to the current year and month and adds one
\* to its children-born count, which stays at 255 once there, and creates
\* exactly one person: with the id the counter held, counted on by one, born
\* today, linked to the mother, on her tile, without partner and pregnancy,
\* with a default fertility record exactly when female; the count returned is
\* the number of persons created.
C29_DeliveryUpdatesMotherAndCreatesChild ==
    [][(PassDue("delivery") /\ tk'.pc = tk.pc + 1) =>
          LET mothers == Due(persons, calendar)
          IN /\ DOMAIN persons \subseteq DOMAIN persons'
             /\ tk'.births = Cardinality(Newborn)
             /\ tk'.births = Cardinality(mothers)
             /\ next_person_id' = next_person_id + Cardinality(Newborn)
             /\ {persons'[c].id : c \in Newborn} =
                   next_person_id..(next_person_id' - 1)
             /\ \A m \in mothers :
                   /\ persons'[m] =
                         [persons[m] EXCEPT
                            !.preg = <<>>,
                            !.fert =
                               IF @ = <<>> THEN <<>>
                               ELSE <<[last_birth_year |-> calendar.year,
                                       last_birth_month |-> calendar.month,
                                       children_born |->
                                          IF @[1].children_born = 255
                                          THEN 255
                                          ELSE @[1].children_born + 1]>>]
                   /\ Cardinality({c \in Newborn :
                                      persons'[c].mother = m}) = 1
             /\ \A e \in DOMAIN persons \ mothers : persons'[e] = persons[e]
             /\ \A c \in Newborn :
                   /\ persons'[c].mother \in mothers
                   /\ persons'[c].birth = calendar
                   /\ persons'[c].tile = persons[persons'[c].mother].tile
                   /\ persons'[c].partner = NoEntity
                   /\ persons'[c].preg = <<>>
                   /\ persons'[c].fert =
                         IF persons'[c].sex = "Female"
                         THEN <<DefaultFertility>> ELSE <<>>
      ]_vars

\* C29 witness: a delivery pass has just created a girl with the id the
\* counter held, for a mother whose children-born count was 255 and is.
C29_Witness ==
    /\ Ticking /\ tk.pc = 6 /\ tk.births = 1
    /\ calendar.year = StartYear
    /\ \E c \in DOMAIN persons :
          /\ persons[c].mother \in DOMAIN persons
          /\ persons[c].birth = calendar
          /\ persons[c].sex = "Female"
          /\ persons[c].fert = <<DefaultFertility>>
          /\ persons[c].id = tk.start[1].next_person_id
          /\ LET m == persons[c].mother
             IN /\ tk.start[1].persons[m].fert # <<>>
                /\ tk.start[1].persons[m].fert[1].children_born = 255
                /\ persons[m].fert[1].children_born = 255
                /\ persons[m].fert[1].last_birth_year = calendar.year
                /\ persons[m].preg = <<>>

\* Calendar months from a year and month to the calendar's: 12 times the
\* difference of the years plus the difference of the months.
MonthsSince(year, month, cal) == 12 * (cal.year - year) + (cal.month - month)

\* C30: a woman who delivered in month M gets no new pregnancy before the
\* calendar is at least 18 calendar months after M, counted as 12 times the
\* year difference plus the month difference; a woman who never gave birth
\* is not held back by the interval.
C30_EighteenMonthsBetweenBirthAndConception ==
    /\ [][(PassDue("conception") /\ tk'.pc = tk.pc + 1) =>
             \A e \in tk'.C :
                /\ \A c \in DOMAIN persons :
                      persons[c].mother = e =>
                         MonthsSince(persons[c].birth.year,
                                     persons[c].birth.month, calendar) >= 18
                /\ persons[e].fert # <<>>
                /\ persons[e].fert[1].last_birth_year # 0 =>
                      MonthsSince(persons[e].fert[1].last_birth_year,
                                  persons[e].fert[1].last_birth_month,
                                  calendar) >= 18
         ]_vars
    /\ [](PassDue("conception") =>
             \A e \in DOMAIN persons :
                (/\ persons[e].fert = <<DefaultFertility>>
                 /\ persons[e].partner # NoEntity
                 /\ persons[e].preg = <<>>
                 /\ AgeYears(persons[e].birth, calendar) \in 16..33)
                   => e \in Eligible(persons, calendar))

\* C30 witness: a conception pass has just made pregnant a woman whose last
\* birth is recorded exactly 18 months before the calendar's month.
C30_Witness ==
    /\ Ticking /\ tk.pc = 5
    /\ \E e \in tk.C :
          LET f == tk.start[1].persons[e].fert
          IN /\ f # <<>>
             /\ f[1].last_birth_year # 0
             /\ MonthsSince(f[1].last_birth_year, f[1].last_birth_month,
                            calendar) = 18
             /\ persons[e].preg # <<>>

\* A tick after a delivery: a mother with a child of this or the month
\* before comes to the conception pass with her partner alive.
C30_MotherHeldBack ==
    /\ PassDue("conception")
    /\ \E e, c \in DOMAIN persons :
          /\ persons[c].mother = e
          /\ MonthsSince(persons[c].birth.year, persons[c].birth.month,
                         calendar) < 18
          /\ persons[e].partner # NoEntity
          /\ persons[e].preg = <<>>
          /\ AgeYears(persons[e].birth, calendar) \in 16..33

\* C31: the population a tick reports is the number of living persons after
\* it and is the population before the tick less the deaths plus the births
\* it reports; matchmaking, dissolution and conception neither create nor
\* destroy a person.
C31_PopulationConserved ==
    /\ [][(PassDue("log") /\ ~Ticking') =>
             /\ last'.op = "tick"
             /\ last'.result.population = Cardinality(DOMAIN persons')
             /\ last'.result.population =
                   Cardinality(DOMAIN tk.start[1].persons)
                      - last'.result.deaths + last'.result.births
         ]_vars
    /\ [][((PassDue("matchmaking") \/ PassDue("dissolution")
              \/ PassDue("conception")) /\ tk'.pc = tk.pc + 1) =>
             DOMAIN persons' = DOMAIN persons
         ]_vars

\* C31 witness: a tick has ended in which one person died and one was born,
\* reporting the population it started with.
C31_Witness ==
    /\ ~Ticking
    /\ last.op = "tick"
    /\ last.result.deaths = 1
    /\ last.result.births = 1
    /\ last.result.population = 2
    /\ Cardinality(DOMAIN persons) = 2

\* The events of one type among the last n of a sequence of events.
TypeAmongLast(events, n, type) ==
    Cardinality({i \in (Len(events) - n + 1)..Len(events) :
                    events[i].event_type = type})

\* C32: a tick appends to the event log one event per outcome its passes
\* report: as many Birth, Death, Marriage, PregnancyStarted and Dissolution
\* events as the births, deaths, marriages, pregnancies and dissolutions of
\* its result, each with the calendar date after the tick's advance; a tick
\* whose counts are all zero appends nothing.
C32_OneEventPerOutcome ==
    [][(PassDue("log") /\ ~Ticking') =>
          LET r == last'.result
              n == r.births + r.deaths + r.marriages + r.pregnancies
                     + r.dissolutions
              old == event_log.events
              new == event_log'.events
              kept == Len(new) - n
          IN /\ kept >= 0 /\ kept <= Len(old)
             /\ SubSeq(new, 1, kept) = SubSeq(old, Len(old) - kept + 1, Len(old))
             /\ kept = Len(old) \/ Len(new) = event_log.max_size
             /\ TypeAmongLast(new, n, "Birth") = r.births
             /\ TypeAmongLast(new, n, "Death") = r.deaths
             /\ TypeAmongLast(new, n, "Marriage") = r.marriages
             /\ TypeAmongLast(new, n, "PregnancyStarted") = r.pregnancies
             /\ TypeAmongLast(new, n, "Dissolution") = r.dissolutions
             /\ \A i \in (kept + 1)..Len(new) :
                   /\ new[i].year = calendar.year
                   /\ new[i].month = calendar.month
                   /\ new[i].day = calendar.day
             /\ calendar = Advance(tk.start[1].calendar)
      ]_vars

\* C32 witness: a tick with a marriage and a conception and no other outcome
\* has ended, and the log holds one Marriage and one PregnancyStarted event
\* of its date and nothing else.
C32_Witness ==
    /\ ~Ticking
    /\ last.op = "tick"
    /\ last.result.marriages = 1 /\ last.result.pregnancies = 1
    /\ last.result.births = 0 /\ last.result.deaths = 0
    /\ last.result.dissolutions = 0
    /\ Len(event_log.events) = 2
    /\ \A i \in 1..2 : event_log.events[i].day = calendar.day

\* A tick without any outcome has ended and the log is as it was.
C32_QuietTickLogsNothing ==
    /\ ~Ticking
    /\ last.op = "tick"
    /\ last.result.marriages = 0 /\ last.result.pregnancies = 0
    /\ last.result.births = 0 /\ last.result.deaths = 0
    /\ last.result.dissolutions = 0
    /\ Len(event_log.events) = 2

\* The person ids of a snapshot's records.
SnapshotIds(data) == {data.people[i].person_id : i \in 1..Len(data.people)}

\* What a successful import leaves, for the snapshot of the call record:
\* one person per record with the record's fields, calendar and id counter
\* of the snapshot, no link for a reference to an id the snapshot lacks, and
\* counts equal to the persons spawned and to the references attached, which
\* for records of different ids are the links the store holds.
ImportReplacesState ==
    LET data == last.data
        people == data.people
    IN /\ DOMAIN persons = 1..Len(people)
       /\ \A i \in 1..Len(people) :
             /\ persons[i].id = people[i].person_id
             /\ persons[i].sex = people[i].sex
             /\ persons[i].tile = people[i].tile_id
             /\ persons[i].first_name = people[i].first_name
             /\ persons[i].birth = Date(people[i].birth_year,
                                        people[i].birth_month,
                                        people[i].birth_day)
             /\ persons[i].fert = people[i].fertility
             /\ persons[i].preg = people[i].pregnancy
       /\ calendar = Date(data.calendar.year, data.calendar.month,
                          data.calendar.day)
       /\ next_person_id = data.next_person_id
       /\ \A i \in 1..Len(people) :
             /\ (people[i].partner_id # <<>>
                   /\ people[i].partner_id[1] \notin SnapshotIds(data)
                   /\ \A j \in 1..Len(people) :
                         j # i => people[j].person_id # people[i].person_id)
                  => persons[i].partner = NoEntity
             /\ (people[i].mother_id # <<>>
                   /\ people[i].mother_id[1] \notin SnapshotIds(data)
                   /\ \A j \in 1..Len(people) :
                         j # i => people[j].person_id # people[i].person_id)
                  => persons[i].mother = NoEntity
       /\ last.result.population = Len(people)
       /\ last.result.partners =
             Cardinality({i \in 1..Len(people) :
                             /\ people[i].partner_id # <<>>
                             /\ people[i].partner_id[1] \in SnapshotIds(data)})
       /\ last.result.mothers =
             Cardinality({i \in 1..Len(people) :
                             /\ people[i].mother_id # <<>>
                             /\ people[i].mother_id[1] \in SnapshotIds(data)})
       /\ last.result.calendar_year = calendar.year
       /\ Cardinality(SnapshotIds(data)) = Len(people) =>
             /\ last.result.partners =
                   Cardinality({e \in DOMAIN persons :
                                   persons[e].partner # NoEntity})
             /\ last.result.mothers =
                   Cardinality({e \in DOMAIN persons :
                                   persons[e].mother # NoEntity})
             /\ \A i \in 1..Len(people) :
                   /\ persons[i].partner # NoEntity =>
                         persons[persons[i].partner].id
                            = people[i].partner_id[1]
                   /\ persons[i].mother # NoEntity =>
                         persons[persons[i].mother].id = people[i].mother_id[1]

C33_RepeatedId ==
    /\ last.op = "import_snapshot"
    /\ Cardinality(SnapshotIds(last.data)) < Len(last.data.people)
    /\ last.result.mothers = 2
    /\ Cardinality({e \in DOMAIN persons : persons[e].mother # NoEntity}) = 1

C34_IdentityAndMotherLinkKept ==
    [][\A e \in DOMAIN persons \cap DOMAIN persons' :
          /\ persons'[e].id = persons[e].id
          /\ persons'[e].first_name = persons[e].first_name
          /\ persons'[e].last_name = persons[e].last_name
          /\ persons'[e].sex = persons[e].sex
          /\ persons'[e].birth = persons[e].birth
          /\ persons'[e].tile = persons[e].tile
          /\ persons'[e].mother = persons[e].mother
          /\ (Ticking /\ ~PassDue("delivery") /\ persons[e].fert # <<>>)
                => persons'[e].fert = persons[e].fert
      ]_vars

\* C34 witness: a tick has ended in which the mother of a child died, and
\* the child still holds the link to her.
C34_Witness ==
    /\ ~Ticking
    /\ last.op = "tick"
    /\ last.result.deaths >= 1
    /\ \E c \in DOMAIN persons :
          /\ persons[c].mother # NoEntity
          /\ persons[c].mother \notin DOMAIN persons

RECURSIVE SumOf(_, _)
\* The sum of one count over the results of a run of ticks.
SumOf(results, count) ==
    IF results = <<>> THEN 0
    ELSE Head(results)[count] + SumOf(Tail(results), count)

\* A host is inside its request for N ticks.
InTicksRequest(h) == hpc[h] = "tm_tick"

\* C35: a host request to advance N ticks holds the world lock across all N
\* ticks: while it is under way the lock is the host's, no loop thread is in
\* its tick or in its callback's read, and the world changes by the ticks of
\* the request only; the result is the sum over the N ticks of births,
\* deaths, marriages, pregnancies and dissolutions, with the population and
\* the calendar date after the last tick, N days after the request began.
C35_TicksRequestHoldsLock ==
    /\ [](\A h \in Hosts : InTicksRequest(h) =>
             /\ world_lock = HostActor(h)
             /\ \A t \in Threads : tpc[t] \notin {"tick", "cb_read"})
    /\ [][\A h \in Hosts :
             (InTicksRequest(h) /\ InTicksRequest(h)' /\ World' # World) =>
                 /\ tk'.left = tk.left - 1
                 /\ last_access' = HostActor(h)
                 /\ tk'.results # <<>>
                 /\ calendar' = Advance(calendar)
                 /\ tk'.results[Len(tk'.results)].population
                       = Cardinality(DOMAIN persons')]_vars
    /\ [][\A h \in Hosts :
             (InTicksRequest(h) /\ ~InTicksRequest(h)') =>
                 /\ World' = World
                 /\ last'.op = "tick_many"
                 /\ Len(last'.results) = last'.asked
                 /\ \A c \in {"births", "deaths", "marriages", "pregnancies",
                              "dissolutions"} :
                       last'.result[c] = SumOf(last'.results, c)
                 /\ last'.result.population = Cardinality(DOMAIN persons)
                 /\ last'.date = calendar
                 /\ DayNumber(calendar)
                       = DayNumber(last'.start[1].calendar) + last'.asked
              ]_vars

\* A request for two ticks with deaths in both has returned while the loop
\* was waiting for the lock.
C35_Witness ==
    /\ last.op = "tick_many"
    /\ last.asked = 2
    /\ \A i \in 1..2 : last.results[i].deaths >= 1
    /\ \E t \in Threads : tpc[t] \in {"lock", "cb_lock"}
    /\ world_lock = Free

\* The date a tick event carries.
EventDate(event) == Date(event.year, event.month, event.day)

\* C36: the calendar date carried by a tick event the Runner's callback
\* emits is the date of the very tick whose counts the event carries, for
\* any interleaving of the callback with the hosts' requests.
C36_EventDateIsTickDate ==
    last.op = "calendar-tick" => EventDate(last.event) = last.ticked

\* The date carried is the calendar's at the time of the callback, never
\* before the date of the event's tick, and the counts are those the loop's
\* tick returned.
C36_EventDateIsCallbackDate ==
    [][\A t \in Threads :
          (tpc[t] = "cb_read" /\ tpc'[t] = "sleep") =>
              /\ last'.op = "calendar-tick"
              /\ EventDate(last'.event) = calendar
              /\ DayNumber(calendar) >= DayNumber(last'.ticked)
              /\ \A c \in DOMAIN targs[t].tick_result :
                    last'.event[c] = targs[t].tick_result[c]]_vars

\* An event has been emitted with the date of its own tick.
C36_UndisturbedEvent ==
    /\ last.op = "calendar-tick"
    /\ EventDate(last.event) = last.ticked

\* An event has been emitted with a date two days after its tick.
C36_LateDate ==
    /\ last.op = "calendar-tick"
    /\ DayNumber(EventDate(last.event)) = DayNumber(last.ticked) + 2

\* C37: every wife married by the matchmaking pass holds a fertility record
\* when the pass ends, the default one if she had none and her own,
\* unchanged, if she had one; and in a seeded world every partnered female
\* holds a fertility record, so that the conception pass sees her.
C37_WivesHoldFertility ==
    /\ [][(PassDue("matchmaking") /\ tk'.pc = tk.pc + 1) =>
             \A c \in tk'.M :
                /\ c[2] \in DOMAIN persons'
                /\ persons'[c[2]].partner = c[1]
                /\ persons'[c[2]].fert =
                      IF persons[c[2]].fert = <<>> THEN <<DefaultFertility>>
                      ELSE persons[c[2]].fert
                /\ DefaultFertility.children_born = 0
                /\ CanGiveBirth(DefaultFertility, calendar)]_vars
    /\ [](\A e \in DOMAIN persons :
             (persons[e].sex = "Female" /\ persons[e].partner # NoEntity)
                => persons[e].fert # <<>>)

\* C37 witness: a tick has ended in which a woman was married and conceived.
C37_Witness ==
    /\ ~Ticking
    /\ last.op = "tick"
    /\ last.result.marriages = 1
    /\ last.result.pregnancies = 1
    /\ \E e \in DOMAIN persons :
          /\ persons[e].sex = "Female"
          /\ persons[e].partner \in DOMAIN persons
          /\ persons[e].fert = <<DefaultFertility>>
          /\ persons[e].preg # <<>>

\* The persons of one sex on a tile who hold no partner link and are at
\* least 16 years old.
Unpartnered(P, cal, sex, tile) ==
    {e \in DOMAIN P : /\ P[e].partner = NoEntity
                      /\ P[e].sex = sex
                      /\ P[e].tile = tile
                      /\ AgeYears(P[e].birth, cal) >= 16}

\* The ages of two persons differ by at most 15 years.
AgesWithin15(P, cal, a, b) ==
    /\ AgeYears(P[a].birth, cal) - AgeYears(P[b].birth, cal) <= 15
    /\ AgeYears(P[b].birth, cal) - AgeYears(P[a].birth, cal) <= 15

\* C38: matchmaking is maximal within each location: whatever the two
\* shuffles yield, when the pass ends no location holds an unpartnered man
\* and an unpartnered woman, both at least 16, whose ages differ by at most
\* 15 years.
C38_MatchmakingIsMaximal ==
    [][(PassDue("matchmaking") /\ tk'.pc = tk.pc + 1) =>
          \A t \in Tiles :
             \A m \in Unpartnered(persons', calendar', "Male", t) :
                \A w \in Unpartnered(persons', calendar', "Female", t) :
                   ~AgesWithin15(persons', calendar', m, w)]_vars

\* C38 witness: the pass has ended with one couple formed and, on the
\* couple's tile, a woman left unpartnered whose age is more than 15 years
\* from the husband's.
C38_Witness ==
    /\ Ticking
    /\ ~PassDue("matchmaking")
    /\ tk.done # <<>>
    /\ tk.done[Len(tk.done)] = "matchmaking"
    /\ \E c \in tk.M :
          /\ tk.M = {c}
          /\ \E w \in Unpartnered(persons, calendar, "Female",
                                  persons[c[1]].tile) :
                ~AgesWithin15(persons, calendar, c[1], w)

\* The pass has ended with a man and a woman of marriageable age left
\* unpartnered on one tile, their ages more than 15 years apart.
C38_IncompatibleLeft ==
    /\ Ticking
    /\ tk.done # <<>>
    /\ tk.done[Len(tk.done)] = "matchmaking"
    /\ \E t \in Tiles :
          /\ Unpartnered(persons, calendar, "Male", t) # {}
          /\ Unpartnered(persons, calendar, "Female", t) # {}

\* Date a is before date b, in year, month, day order.
DateBefore(a, b) ==
    \/ a.year < b.year
    \/ a.year = b.year /\ a.month < b.month
    \/ a.year = b.year /\ a.month = b.month /\ a.day < b.day

\* The step is a tick of the run followed, ended or panicked.
RunTicks == cl.start # <<>> /\ cl' # cl

\* What C39 says of one tick of the calendar.
TickMovesDateOn ==
    /\ ~cl'.panicked
    /\ DateBefore(calendar, calendar')
    /\ calendar'.year \in 0..(YearModulus - 1)
    /\ (calendar.month = MONTHS_PER_YEAR /\ calendar.day = DAYS_PER_MONTH)
          => calendar' = Date(calendar.year + 1, 1, 1)

\* C39: the calendar date strictly increases, in year, month, day order,
\* with every tick, from every date a 16-bit year can hold: the tick at
\* month 12, day 8 gives month 1, day 1 of the following year, without
\* wraparound and without failure of the year counter.
C39_DateStrictlyIncreases == [][RunTicks => TickMovesDateOn]_vars

\* The same of the ticks made before the last day of the last year a u16
\* holds.
C39_IncreasesBeforeLastYear ==
    [][(RunTicks /\ calendar # Date(YearModulus - 1, MONTHS_PER_YEAR,
                                    DAYS_PER_MONTH))
          => TickMovesDateOn]_vars

\* A year has ended within the range: the tick of month 12, day 8 was made.
C39_YearTurned ==
    /\ cl.start # <<>>
    /\ cl.start[1].year = StartYear
    /\ calendar = Date(StartYear + 1, 1, 1)

\* The due year computed at conception follows the year of conception: the
\* same year, or the next when the due month passes 12, never an earlier one.
C39_DueYearFollows ==
    pg.at # <<>> =>
       /\ ~pg.panicked
       /\ pg.preg[1].due_year =
             pg.at[1].year + (IF pg.at[1].month + 9 > MONTHS_PER_YEAR
                              THEN 1 ELSE 0)

\* The child created by a delivery has the last name of its mother when her
\* person record can be read.
LastNameInherited ==
    \A c \in Newborn :
       persons'[c].mother \in DOMAIN persons'
          => persons'[c].last_name = persons'[persons'[c].mother].last_name

\* C40: a newborn's last name is inherited from its mother whenever the
\* mother's person record is resolvable at delivery, and its first name is a
\* generated name matching its sex.
C40_NewbornNamedAfterMother ==
    [][(PassDue("delivery") /\ tk'.pc = tk.pc + 1) =>
          /\ LastNameInherited
          /\ \A c \in Newborn :
                persons'[c].first_name
                   \in RandomFirstNames(persons'[c].sex = "Male")]_vars

\* The last name alone: the child's is its mother's.
C40_LastNameAsMothers ==
    [][(PassDue("delivery") /\ tk'.pc = tk.pc + 1) => LastNameInherited]_vars

\* What delivery gives every child: the first name Child_<id>, whatever its
\* sex, and no last name.
C40_ChildNamedById ==
    [][(PassDue("delivery") /\ tk'.pc = tk.pc + 1) =>
          \A c \in Newborn :
             /\ persons'[c].first_name = Name("Child", persons'[c].id)
             /\ persons'[c].last_name = ""]_vars

\* A delivery pass has created the child of a mother whose last name is
\* Smith.
C40_ChildOfNamedMother ==
    /\ Ticking
    /\ tk.done # <<>>
    /\ tk.done[Len(tk.done)] = "delivery"
    /\ \E c \in DOMAIN persons :
          /\ persons[c].birth = calendar
          /\ persons[c].mother \in DOMAIN persons
          /\ persons[persons[c].mother].last_name = "Smith"

====
